---- MODULE Spec2Model ----
(***************************************************************************)
(* A model of the protocells agent runtime: the in-memory message queue    *)
(* (src/src/queue.ts), the round-based executor loop (executor.ts, kept in *)
(* src/unnamed/part_009), the memory manager (src/src/memory.ts), the tool *)
(* dispatcher (src/src/tool-exec.ts), the state store (src/src/state.ts)   *)
(* and the history writer (history.ts, kept in src/unnamed/part_011).      *)
(*                                                                         *)
(* One action is one run of the executor between two awaits, or one        *)
(* handler of the HTTP surface.  Message contents are modelled by their    *)
(* length in characters (the only thing the memory manager reads) and a    *)
(* tag naming what produced the text.                                      *)
(***************************************************************************)
EXTENDS Integers, Sequences, FiniteSets, TLC

(***************************************************************************)
(* Bounds of the model                                                     *)
(***************************************************************************)
MaxPush == 2        \* messages pushed into the queue in one behaviour
MaxTurns == 2       \* provider responses accepted in one behaviour
MaxNudgeTurns == 3  \* the same, where only the turns of the provider are followed
MaxLLMErrors == 1   \* rounds of one behaviour in which every provider.chat attempt fails
MaxReplies == 2     \* reply calls delivered in one behaviour of ReplySpec
MaxDeletes == 2     \* DELETE /outbox/:id requests in one behaviour of ReplySpec
MaxCommands == 2    \* bash calls in one behaviour of BashSpec
MaxKills == 2       \* bash_kill calls in one behaviour of BashSpec
MaxBootRound == 2   \* round of the agent.json a starting process finds
MaxBootContext == 2 \* messages of the context.json a starting process finds
MaxRepairLen == 3   \* messages of a sequence given to repairToolPairing
MaxPruneRounds == 4 \* rounds of a sequence given to pruneContext
MaxNewlines == 102  \* '\n' characters a command writes to stdout
MaxPolls == 2       \* polls of one repair wait before it times out (maxMs / pollMs, scaled)

(***************************************************************************)
(* Program constants (src/src/memory.ts)                                   *)
(***************************************************************************)
PRUNE_SOFT_CHARS == 80000
PRUNE_HARD_CHARS == 120000
COMPACT_CHARS == 160000
KEEP_LAST_ASSISTANTS == 3
SOFT_TRIM_HEAD == 1500
SOFT_TRIM_TAIL == 1500
SOFT_TRIM_THRESHOLD == 4000
HARD_CLEAR_MIN == 100
CLEARED_PLACEHOLDER_LEN == 43
SYNTHETIC_RESULT_LEN == 42
SUMMARY_PREFIX_LEN == 27
CHUNK_CHARS == 30000
LLM_ATTEMPTS == 3

(***************************************************************************)
(* Messages.  Every message is a record with the same fields:              *)
(*   role   "user" | "assistant" | "tool"                                  *)
(*   txt    what the content is: "queue" (a drained queue message),        *)
(*          "summary", "llm", "result", "error", "wait", "trimmed",        *)
(*          "cleared", "synthetic"                                         *)
(*   id     the queue message's id (user/queue), else 0                    *)
(*   len    content.length (0 stands for null)                             *)
(*   calls  toolCalls of an assistant message (<<>> stands for undefined)  *)
(*   callId toolCallId of a tool message, else 0                           *)
(*   covers the queue messages a summary stands for (history variable)     *)
(*   tag    history variable: for an assistant message the iteration that  *)
(*          produced it; for a queue message the iteration that was in     *)
(*          flight (drained, its turn not yet persisted) when it was       *)
(*          pushed, or 0                                                   *)
(*   din    history variable: the iteration that drained a queue message   *)
(***************************************************************************)
Msg(role, txt, id, len, calls, callId, covers, tag, din) ==
    [role |-> role, txt |-> txt, id |-> id, len |-> len, calls |-> calls,
     callId |-> callId, covers |-> covers, tag |-> tag, din |-> din]

UserMsg(id, len, tag, din) == Msg("user", "queue", id, len, <<>>, 0, {}, tag, din)
AssistantMsg(len, calls, tag) == Msg("assistant", "llm", 0, len, calls, 0, {}, tag, 0)
ToolMsg(txt, len, callId) == Msg("tool", txt, 0, len, <<>>, callId, {}, 0, 0)

RECURSIVE SumSeq(_)
SumSeq(s) == IF s = <<>> THEN 0 ELSE Head(s) + SumSeq(Tail(s))

Max(a, b) == IF a >= b THEN a ELSE b
Range(s) == {s[i] : i \in 1..Len(s)}

\* String(n).length for the lengths that occur
Digits(n) == IF n < 10 THEN 1 ELSE IF n < 100 THEN 2 ELSE IF n < 1000 THEN 3
             ELSE IF n < 10000 THEN 4 ELSE IF n < 100000 THEN 5 ELSE IF n < 1000000 THEN 6 ELSE 7

(***************************************************************************)
(* memory.ts: size estimate                                                *)
(***************************************************************************)
\* tc.chars stands for JSON.stringify(tc.args).length + tc.name.length + tc.id.length
estimateMessageChars(msg) ==
    msg.len + SumSeq([i \in 1..Len(msg.calls) |-> msg.calls[i].chars])

estimateContextChars(messages) ==
    SumSeq([i \in 1..Len(messages) |-> estimateMessageChars(messages[i])])

(***************************************************************************)
(* memory.ts: pruning.  Indices are the code's (0-based): message i of the *)
(* code is messages[i + 1] here.                                           *)
(***************************************************************************)
\* the number of assistant messages at code indices i..length-1
AssistantsFrom(messages, i) ==
    Cardinality({j \in (i + 1)..Len(messages) : messages[j].role = "assistant"})

\* a cut-off one assistant message too late
findPruneCutoff_OneLater(messages, keepLast) ==
    LET hits == {i \in 0..(Len(messages) - 1) :
                    /\ messages[i + 1].role = "assistant"
                    /\ AssistantsFrom(messages, i) >= keepLast - 1}
    IN  IF hits = {} THEN 0
        ELSE CHOOSE i \in hits : \A j \in hits : j <= i

findPruneCutoff(messages, keepLast) ==
    LET hits == {i \in 0..(Len(messages) - 1) :
                    /\ messages[i + 1].role = "assistant"
                    /\ AssistantsFrom(messages, i) >= keepLast}
    IN  IF hits = {} THEN 0
        ELSE CHOOSE i \in hits : \A j \in hits : j <= i

softTrimLen(len) ==
    IF len <= SOFT_TRIM_THRESHOLD THEN len
    ELSE SOFT_TRIM_HEAD + 58 + Digits(len) + SOFT_TRIM_TAIL

pruneMessage(msg, needsHardClear) ==
    IF msg.role # "tool" \/ msg.len = 0 THEN msg
    ELSE IF needsHardClear
         THEN IF msg.len > HARD_CLEAR_MIN
              THEN [msg EXCEPT !.len = CLEARED_PLACEHOLDER_LEN, !.txt = "cleared"]
              ELSE msg
         ELSE IF softTrimLen(msg.len) # msg.len
              THEN [msg EXCEPT !.len = softTrimLen(msg.len), !.txt = "trimmed"]
              ELSE msg

pruneContext(messages) ==
    LET totalChars == estimateContextChars(messages)
        cutoff == findPruneCutoff(messages, KEEP_LAST_ASSISTANTS)
        needsHardClear == totalChars >= PRUNE_HARD_CHARS
    IN  IF totalChars < PRUNE_SOFT_CHARS THEN messages
        ELSE IF cutoff <= 0 THEN messages
        ELSE [i \in 1..Len(messages) |->
                IF i - 1 < cutoff THEN pruneMessage(messages[i], needsHardClear)
                ELSE messages[i]]

(***************************************************************************)
(* memory.ts: tool call / result repair                                    *)
(***************************************************************************)
AllToolCallIds(messages) ==
    UNION {{messages[i].calls[k].id : k \in 1..Len(messages[i].calls)} :
              i \in {j \in 1..Len(messages) : messages[j].role = "assistant"}}

\* second loop of repairToolPairing: drop orphaned and duplicate tool results;
\* returns the kept messages and the set toolResultIds
RECURSIVE DropOrphans(_, _, _, _)
DropOrphans(messages, toolCallIds, seen, acc) ==
    IF messages = <<>> THEN [result |-> acc, toolResultIds |-> seen]
    ELSE LET msg == Head(messages) IN
         IF msg.role = "tool" /\ msg.callId # 0
         THEN IF msg.callId \notin toolCallIds \/ msg.callId \in seen
              THEN DropOrphans(Tail(messages), toolCallIds, seen, acc)
              ELSE DropOrphans(Tail(messages), toolCallIds, seen \cup {msg.callId},
                               Append(acc, msg))
         ELSE DropOrphans(Tail(messages), toolCallIds, seen, Append(acc, msg))

\* the synthetic results pushed after one assistant message
RECURSIVE SyntheticFor(_, _, _)
SyntheticFor(calls, seen, acc) ==
    IF calls = <<>> THEN [msgs |-> acc, seen |-> seen]
    ELSE IF Head(calls).id \notin seen
         THEN SyntheticFor(Tail(calls), seen \cup {Head(calls).id},
                           Append(acc, ToolMsg("synthetic", SYNTHETIC_RESULT_LEN, Head(calls).id)))
         ELSE SyntheticFor(Tail(calls), seen, acc)

\* third loop of repairToolPairing
RECURSIVE AddSynthetic(_, _, _)
AddSynthetic(result, seen, acc) ==
    IF result = <<>> THEN acc
    ELSE LET msg == Head(result) IN
         IF msg.role = "assistant" /\ msg.calls # <<>>
         THEN LET s == SyntheticFor(msg.calls, seen, <<>>)
              IN  AddSynthetic(Tail(result), s.seen, Append(acc, msg) \o s.msgs)
         ELSE AddSynthetic(Tail(result), seen, Append(acc, msg))

repairToolPairing(messages) ==
    LET d == DropOrphans(messages, AllToolCallIds(messages), {}, <<>>)
    IN  AddSynthetic(d.result, d.toolResultIds, <<>>)

(***************************************************************************)
(* memory.ts: compaction                                                   *)
(***************************************************************************)
\* a compaction that starts only above the threshold
shouldCompress_Above(messages) == estimateContextChars(messages) > COMPACT_CHARS

\* lines 198-200
shouldCompress(messages) == estimateContextChars(messages) >= COMPACT_CHARS

\* the while loops of findCompactionSplit: walk forward to a user message
RECURSIVE WalkToUser(_, _)
WalkToUser(messages, splitIndex) ==
    IF splitIndex < Len(messages) - 2 /\ messages[splitIndex + 1].role # "user"
    THEN WalkToUser(messages, splitIndex + 1)
    ELSE splitIndex

\* -1 stands for the TypeError of messages[splitIndex].role on a missing element
findCompactionSplit(messages) ==
    LET targetKeep == Max(4, Len(messages) \div 3)
        start == IF Len(messages) - targetKeep < 1 THEN 1 ELSE Len(messages) - targetKeep
        first == WalkToUser(messages, start)
    IN  IF first >= Len(messages) THEN -1
        ELSE IF messages[first + 1].role # "user"
             THEN WalkToUser(messages, Max(1, Len(messages) - 6))
             ELSE first

\* the number of chunks chunkMessages cuts the messages into
RECURSIVE ChunkCount(_, _, _)
ChunkCount(messages, currentLen, currentChars) ==
    IF messages = <<>> THEN (IF currentLen > 0 THEN 1 ELSE 0)
    ELSE LET msgChars == estimateMessageChars(Head(messages)) IN
         IF currentLen > 0 /\ currentChars + msgChars > CHUNK_CHARS
         THEN 1 + ChunkCount(Tail(messages), 1, msgChars)
         ELSE ChunkCount(Tail(messages), currentLen + 1, currentChars + msgChars)

\* the queue messages a sequence of messages holds or stands for
CoveredBy(messages) ==
    UNION {(IF messages[i].role = "user" /\ messages[i].txt = "queue"
            THEN {messages[i].id} ELSE {}) \cup messages[i].covers : i \in 1..Len(messages)}

\* summary.length for n chunks summarised in partLen characters each
SummaryLen(n, partLen) ==
    IF n = 1 THEN partLen ELSE n * (11 + partLen) + 2 * (n - 1)

\* a compaction that keeps the kept suffix as it is, without repairToolPairing
compressContext_NoRepair(messages, partLen) ==
    LET splitIndex == findCompactionSplit(messages)
        toCompress == SubSeq(messages, 1, splitIndex)
        toKeep == SubSeq(messages, splitIndex + 1, Len(messages))
        chunks == ChunkCount(toCompress, 0, 0)
    IN  <<Msg("user", "summary", 0, SUMMARY_PREFIX_LEN + SummaryLen(chunks, partLen),
              <<>>, 0, CoveredBy(toCompress), 0, 0)>> \o toKeep

\* the value compressContext resolves to (partLen: the length of each partial summary)
compressContext(messages, partLen) ==
    LET splitIndex == findCompactionSplit(messages)
        toCompress == SubSeq(messages, 1, splitIndex)
        toKeep == SubSeq(messages, splitIndex + 1, Len(messages))
        chunks == ChunkCount(toCompress, 0, 0)
        summary == Msg("user", "summary", 0,
                       SUMMARY_PREFIX_LEN + SummaryLen(chunks, partLen),
                       <<>>, 0, CoveredBy(toCompress), 0, 0)
    IN  <<summary>> \o repairToolPairing(toKeep)


(***************************************************************************)
(* Inputs                                                                  *)
(***************************************************************************)
ContentLens == {10, 170000}       \* content.length of a POST /message body
SourceChars == 6                 \* source.length of the sender ("test:1")
RestartChars == 14               \* source.length of 'system:restart'
RestartLen == 150                \* content.length of the restart notification
AssistantTextLen == 40           \* content.length of a provider answer without tool calls
CallChars == 40                  \* args + name + id characters of one tool call
SummaryPartLen == 200            \* response.content.length of one chunk summary
FallbackPartLen == 36            \* '[N messages could not be summarized]'
NudgeLen == 189                  \* the '[system] You did not call any tools...' message

\* the tool names of one provider response, in call-declaration order
\* ("tool": a loaded user tool, "nope": a name that no loaded tool has)
Shapes == {<<>>, <<"think", "wait_for">>, <<"tool", "reply">>, <<"nope">>}

\* a tool call's outcome: the tool message's text and length, shouldWait, and
\* what the tool wrote into agent.json while it ran
Outcome(txt, len, wait, write) == [txt |-> txt, len |-> len, wait |-> wait, write |-> write]

Running == Outcome("running", 0, FALSE, "none")

\* executeToolCall rejected instead of resolving to a result
Rejected == Outcome("rejected", 0, FALSE, "none")

(***************************************************************************)
(* tool-exec.ts: what executeToolCall can settle with, by tool name        *)
(***************************************************************************)
executeToolCall(name) ==
    CASE name = "think" -> {Outcome("ok", 2, FALSE, "none")}
      [] name = "reply" -> {Outcome("result", 60, FALSE, "none"),    \* delivered
                            Outcome("error", 50, FALSE, "none"),     \* ERROR delivering reply
                            Rejected}    \* lines 36-37, args is null: args.source throws
      [] name = "wait_for" -> {Outcome("wait", 58, TRUE, "none")}
      [] name = "nope" -> {Outcome("error", 26, FALSE, "none")}      \* ERROR: unknown tool
      [] OTHER -> {Outcome("result", 20, FALSE, "none"),
                   Outcome("result", 20, TRUE, "none"),              \* action: "wait"
                   Outcome("error", 30, FALSE, "none"),              \* threw or timed out
                   Outcome("result", 20, FALSE, "model"),            \* wrote agent.json: model
                   Outcome("result", 20, FALSE, "round")}            \* wrote agent.json: round

(***************************************************************************)
(* tool-exec.ts: loadRoutes, deliverReply                                  *)
(***************************************************************************)
\* A source is the sequence of its pieces: ":" for a colon, any other string
\* for a run of characters without a colon. An index into the pieces stands
\* for the index of the piece's first character.
Sources ==
    {<<"bridge", ":", "s1">>, <<"other", ":", "s2">>, <<"bridge">>, <<":", "s1">>,
     <<"bridge", ":", "a", ":", "b">>, <<>>}

Contents == {"X", "Y"}

\* a routes.json table: key -> entry; an entry without a url has url ""
EmptyTable == [k \in {} |-> [url |-> ""]]
BridgeTable == (<<"bridge">> :> [url |-> "U1"])
NoUrlTable == (<<"bridge">> :> [url |-> ""])
EmptyKeyTable == (<<>> :> [url |-> "U2"]) @@ BridgeTable
ColonKeyTable == (<<":", "s1">> :> [url |-> "U2"]) @@ BridgeTable

\* routes.json is absent or does not parse
NoRoutesFile == [parses |-> FALSE, table |-> EmptyTable]

RouteFiles ==
    {NoRoutesFile} \cup
    {[parses |-> TRUE, table |-> t] :
        t \in {EmptyTable, BridgeTable, NoUrlTable, EmptyKeyTable, ColonKeyTable}}

\* lines 79-87: the parsed file, or {} when reading or parsing throws
loadRoutes(file) == IF file.parses THEN file.table ELSE EmptyTable

\* String.prototype.indexOf(':'), 0-based, -1 when there is none
indexOfColon(source) ==
    IF \E i \in 1..Len(source) : source[i] = ":"
    THEN (CHOOSE i \in 1..Len(source) :
             /\ source[i] = ":"
             /\ \A j \in 1..(i - 1) : source[j] # ":") - 1
    ELSE -1

\* everything before the first colon, wherever it is
replyPrefix_UpToColon(source) ==
    IF indexOfColon(source) >= 0 THEN SubSeq(source, 1, indexOfColon(source)) ELSE source

\* lines 102-103: colonIdx > 0 ? source.slice(0, colonIdx) : source
replyPrefix(source) ==
    IF indexOfColon(source) > 0 THEN SubSeq(source, 1, indexOfColon(source)) ELSE source

\* lines 99-121: what deliverReply does for a reply, given whether the route's
\* endpoint answers 2xx: the request it sends, the outbox file it writes, and
\* what it returns ("route", "outbox") or that it throws
deliverReply(routes, source, content, endpointOk, fileId) ==
    LET prefix == replyPrefix(source)
        hasUrl == prefix \in DOMAIN routes /\ routes[prefix].url # ""
    IN  IF hasUrl
        THEN [request |-> <<[url |-> routes[prefix].url, source |-> source, content |-> content]>>,
              file |-> <<>>,
              destination |-> IF endpointOk THEN "route" ELSE "throws",
              url |-> routes[prefix].url]
        ELSE [request |-> <<>>,
              file |-> <<[id |-> fileId, source |-> source, content |-> content]>>,
              destination |-> "outbox",
              url |-> ""]

\* lines 35-51: the tool message of a reply call: 'Reply delivered to ... via
\* <url>', 'Reply written to outbox for ...', or 'ERROR delivering reply: ...'
replyToolResult(delivery) ==
    [kind |-> CASE delivery.destination = "route" -> "delivered"
                [] delivery.destination = "outbox" -> "outbox"
                [] OTHER -> "error",
     url |-> delivery.url]

\* a command bash has not been called with yet
Idle ==
    [child |-> "none", forceAsync |-> FALSE, timeout |-> 0, resolved |-> FALSE,
     results |-> <<>>, killTimer |-> "none", asyncTimer |-> "none", signals |-> {},
     endedBy |-> "none", file |-> "none", exitLine |-> FALSE, posts |-> 0, msgId |-> 0,
     fd |-> "none", errored |-> FALSE, threw |-> FALSE]

\* bash.js: the text a command has written to stdout so far, as the number of
\* its '\n' characters and whether text follows the last of them
NoOutput == [newlines |-> 0, tail |-> FALSE]

\* bash.js: no inline result yet; the streaming output file is open
NotClosed == [kind |-> "none", shown |-> 0, total |-> 0, saved |-> FALSE, stream |-> "open",
              output |-> NoOutput]

VARIABLES
    queue,          \* MessageQueue.messages
    waiter,         \* MessageQueue.waiter is set
    pc,             \* where the executor is suspended
    status,         \* executorState.status
    error,          \* executorState.error: its source, or "none"
    agentJson,      \* agent.json
    diskContext,    \* memory/context.json
    history,        \* history/round-N.json: round -> the record's messages
    scriptsOk,      \* the provider and tool modules load
    exports,        \* which of them lacks its default export: "all" have it
    signalFile,     \* .repair-signal exists
    state,          \* executeLoop: state (agent.json as loaded at the top of the iteration)
    currentContext, \* executeLoop: currentContext
    roundMessages,  \* executeLoop: roundMessages
    calls,          \* executeLoop: llmResponse.toolCalls
    results,        \* the promises of Promise.all: call index -> outcome, or Running
    attempt,        \* executeLoop: attempt
    delays,         \* the backoff delays waited since the round's first attempt
    noToolRetries,  \* executeLoop: noToolRetries
    polls,          \* waitForExternalRepair: polls done
    inTry,          \* enterErrorState was called inside the try block
    resumedBy,      \* which log line the last repair wait ended with (lines 52, 60)
    exitCode,       \* process exit code, -1 while the process runs
    \* history variables
    nextId,         \* messages accepted by push so far
    drainedLog,     \* ids returned by drain, in order
    drainIters,     \* for each of them, the iteration that drained it
    iter,           \* iterations that reached the drain
    turns,          \* provider responses accepted
    llmErrors,      \* rounds so far in which every attempt failed
    histWrites,     \* the rounds saveHistory was called with, in order
    doneOrder,      \* the order the tool calls of this turn completed in
    wakes,          \* resolve() calls since the executor last blocked
    posted,         \* ids of the messages accepted by POST /message
    lastWrite,      \* what a tool of the last turn wrote into agent.json
    signalStale,    \* .repair-signal was written while no error was active
    routesJson,     \* routes.json
    outbox,         \* the files under outbox/, in the order they were written
    requests,       \* the POSTs sent to route urls, in order
    replyResults,   \* the reply calls made so far with their tool results
    deleteLog,      \* the DELETE /outbox/:id requests answered so far: id and status
    bash,           \* per bash call: its child, timers, output file and what it returned
    jobs,           \* globalThis.__bashJobs: the ids registered
    forceTimers,    \* the jobs bash_kill has a SIGKILL timer pending for
    killLog,        \* the bash_kill calls answered so far
    inFlightPosts,  \* the exit notifications sent and not yet answered
    stdout,         \* bash.execute: inlineStdout of a command that has not closed yet
    inline,         \* what the close handler returned inline, and the files it left
    spawnWorker,    \* agent.ts: isRootSpawner (SPAWN_WORKER was 'true')
    ws,             \* the workspace files the startup code of agent.ts reads and writes
    ws0,            \* the workspace as the process found it
    bootPc,         \* where the startup code of agent.ts is
    argMessages,    \* memory.ts: the messages a function is called with
    returned        \* memory.ts: which function has returned, and what

vars == <<queue, waiter, pc, status, error, agentJson, diskContext, history, scriptsOk, exports,
          signalFile, state, currentContext, roundMessages, calls, results, attempt, delays,
          noToolRetries, polls, inTry, resumedBy, exitCode, nextId, drainedLog, drainIters, iter,
          turns,
          llmErrors, histWrites, doneOrder, wakes, posted, lastWrite, signalStale,
          routesJson, outbox, requests, replyResults, deleteLog,
          bash, jobs, forceTimers, killLog, inFlightPosts,
          stdout, inline, spawnWorker, ws, ws0, bootPc, argMessages, returned>>

queueVars == <<queue, waiter, wakes, nextId, drainedLog, drainIters, posted>>
diskVars == <<agentJson, diskContext, history, histWrites>>
envVars == <<scriptsOk, exports, signalFile, signalStale>>
roundVars == <<state, currentContext, roundMessages, calls, results, attempt, delays, doneOrder,
               iter, lastWrite>>
errVars == <<status, error, polls, inTry, resumedBy, exitCode>>
replyVars == <<routesJson, outbox, requests, replyResults, deleteLog>>
bashVars == <<bash, jobs, forceTimers, killLog, inFlightPosts>>
formatVars == <<stdout, inline>>
bootVars == <<spawnWorker, ws, ws0, bootPc>>
memoryVars == <<argMessages, returned>>
toolVars == <<replyVars, bashVars, formatVars, bootVars, memoryVars>>
replyOthers == <<bashVars, formatVars, bootVars, memoryVars>>
bashOthers == <<replyVars, formatVars, bootVars, memoryVars>>
budgetVars == <<noToolRetries, turns, llmErrors>>

(***************************************************************************)
(* The workspaces the process starts on: a fresh one, a fresh one with     *)
(* maxRounds set, and the workspace of an earlier run (four completed      *)
(* rounds, 100 000 characters of context), on which agent.ts pushes the    *)
(* 'system:restart' message before the loop starts.                        *)
(***************************************************************************)
OldCall(id, name) == [id |-> id, name |-> name, chars |-> CallChars]

OldRound1 == <<Msg("user", "old", 0, 40019, <<>>, 0, {}, 0, 0),
               AssistantMsg(0, <<OldCall(101, "tool")>>, 0),
               ToolMsg("result", 60000, 101)>>
OldRound2 == <<AssistantMsg(0, <<OldCall(102, "tool")>>, 0), ToolMsg("result", 20, 102)>>
OldRound3 == <<AssistantMsg(0, <<OldCall(103, "think")>>, 0), ToolMsg("ok", 2, 103)>>
OldRound4 == <<AssistantMsg(0, <<OldCall(104, "wait_for")>>, 0), ToolMsg("wait", 58, 104)>>

OldContext == OldRound1 \o OldRound2 \o OldRound3 \o OldRound4
OldHistory == (0 :> OldRound1) @@ (1 :> OldRound2) @@ (2 :> OldRound3) @@ (3 :> OldRound4)

Workspaces ==
    {[agent |-> [round |-> 0, model |-> "M1", maxRounds |-> 0], context |-> <<>>,
      history |-> <<>>,
      queue |-> <<>>],
     [agent |-> [round |-> 0, model |-> "M1", maxRounds |-> 1], context |-> <<>>,
      history |-> <<>>,
      queue |-> <<>>],
     [agent |-> [round |-> 4, model |-> "M1", maxRounds |-> 0], context |-> OldContext,
      history |-> OldHistory,
      queue |-> <<[id |-> 1, srcLen |-> RestartChars, len |-> RestartLen, tag |-> 0]>>]}

\* init.ts lines 83-143: the workspace initWorkspace creates for a role.  Of a
\* context message only whether its content includes '[system:boot]' is kept.
NewWorkspace(role) ==
    [exists |-> TRUE, role |-> role, round |-> 0, contextFile |-> TRUE, context |-> <<>>,
     history |-> {}, prompt |-> role, skills |-> role]

\* the state after construction on workspace w
InitOn(w) ==
    /\ agentJson = w.agent
    /\ diskContext = w.context
    /\ history = w.history
    /\ queue = w.queue
    /\ nextId = Len(w.queue)
    /\ waiter = FALSE
    /\ pc = "start"
    /\ status = "waiting"
    /\ error = "none"
    /\ scriptsOk = TRUE
    /\ exports = "all"
    /\ signalFile = FALSE
    /\ signalStale = FALSE
    /\ routesJson = NoRoutesFile
    /\ outbox = <<>>
    /\ requests = <<>>
    /\ replyResults = <<>>
    /\ deleteLog = <<>>
    /\ bash = [c \in 1..MaxCommands |-> Idle]
    /\ jobs = {}
    /\ forceTimers = {}
    /\ killLog = <<>>
    /\ inFlightPosts = {}
    /\ stdout = NoOutput
    /\ inline = NotClosed
    /\ state = [round |-> 0, model |-> "M1", maxRounds |-> 0]
    /\ currentContext = <<>>
    /\ roundMessages = <<>>
    /\ calls = <<>>
    /\ results = <<>>
    /\ attempt = 0
    /\ delays = <<>>
    /\ noToolRetries = 0
    /\ polls = 0
    /\ inTry = TRUE
    /\ resumedBy = "none"
    /\ exitCode = -1
    /\ drainedLog = <<>>
    /\ drainIters = <<>>
    /\ iter = 0
    /\ turns = 0
    /\ llmErrors = 0
    /\ histWrites = <<>>
    /\ doneOrder = <<>>
    /\ wakes = 0
    /\ posted = {}
    /\ lastWrite = "none"

\* agent.ts lines 48-141 are done: the process runs as a worker on a workspace
\* that initWorkspace created
Booted ==
    /\ argMessages = <<>>
    /\ returned = [fn |-> "none", out |-> <<>>]
    /\ spawnWorker = FALSE
    /\ ws = NewWorkspace("worker")
    /\ ws0 = NewWorkspace("worker")
    /\ bootPc = "serving"

Init == (\E w \in Workspaces : InitOn(w)) /\ Booted

(***************************************************************************)
(* queue.ts                                                                *)
(***************************************************************************)
\* a wait that installs the waiter whatever the queue holds
waitForMessage_AlwaysBlocks(q) == FALSE

\* MessageQueue.waitForMessage: TRUE when the promise it returns is already resolved
waitForMessage(q) == Len(q) > 0

\* a drain that hands the batch over newest first
drain_NewestFirst(q) == [batch |-> [i \in 1..Len(q) |-> q[Len(q) + 1 - i]], rest |-> <<>>]

\* MessageQueue.drain: the batch returned and the messages left
drain(q) == [batch |-> q, rest |-> <<>>]

\* MessageQueue.push, lines 19-23: TRUE when resolve() is called
pushWakes(w) == w

\* the executor calls queue.waitForMessage() and awaits it
AwaitMessage ==
    IF waitForMessage(queue)
    THEN /\ pc' = "top"
         /\ UNCHANGED <<waiter, wakes>>
    ELSE /\ pc' = "blocked"
         /\ waiter' = TRUE
         /\ wakes' = 0

\* the iteration whose drained messages are not yet followed by its assistant turn
InFlight == IF pc \in {"compacting", "llm", "backoff", "tools"} THEN iter ELSE 0

\* MessageQueue.push, as called by POST /message (server.ts) with a non-empty content
Push ==
    /\ exitCode = -1
    /\ nextId < MaxPush
    /\ \E len \in ContentLens :
          queue' = Append(queue, [id |-> nextId + 1, srcLen |-> SourceChars, len |-> len,
                                  tag |-> InFlight])
    /\ nextId' = nextId + 1
    /\ posted' = posted \cup {nextId + 1}
    /\ IF pushWakes(waiter)
       THEN /\ waiter' = FALSE
            /\ wakes' = wakes + 1
            /\ pc' = IF pc = "blocked" THEN "top" ELSE pc
       ELSE UNCHANGED <<waiter, wakes, pc>>
    /\ UNCHANGED <<drainedLog, drainIters, diskVars, envVars, roundVars, errVars, budgetVars>>
    /\ UNCHANGED toolVars

(***************************************************************************)
(* executor.ts: executeLoop                                                *)
(***************************************************************************)
\* lines 131-135: the wait for the first message
Start ==
    /\ pc = "start"
    /\ status' = "waiting"
    /\ AwaitMessage
    /\ UNCHANGED <<queue, nextId, drainedLog, drainIters, posted, diskVars, envVars, roundVars,
                   error, polls, inTry, resumedBy, exitCode, budgetVars>>
    /\ UNCHANGED toolVars

\* a check that stops one round late
reachedMaxRounds_Late(st) == st.maxRounds # 0 /\ st.round > st.maxRounds

\* line 145: state.maxRounds && state.round >= state.maxRounds
reachedMaxRounds(st) == st.maxRounds # 0 /\ st.round >= st.maxRounds

\* lines 141-157: loadState, the maxRounds check, and the start of the script load
IterStartUpTo(maxTurns) ==
    /\ pc = "top"
    /\ turns < maxTurns
    /\ state' = agentJson
    /\ IF reachedMaxRounds(agentJson)
       THEN /\ pc' = "stopped"
            /\ UNCHANGED status
       ELSE /\ pc' = "loading"
            /\ status' = "running"
    /\ wakes' = 0
    /\ doneOrder' = <<>>
    /\ lastWrite' = "none"
    /\ resumedBy' = "none"
    /\ UNCHANGED <<queue, waiter, nextId, drainedLog, drainIters, posted, diskVars, envVars, currentContext,
                   roundMessages, calls, results, attempt, delays, iter, error, polls,
                   inTry, exitCode, budgetVars>>
    /\ UNCHANGED toolVars

IterStart == IterStartUpTo(MaxTurns)

\* enterErrorState, up to the first poll of waitForExternalRepair
EnterErrorState(source, fromTry) ==
    /\ status' = "error"
    /\ error' = source
    /\ polls' = 0
    /\ inTry' = fromTry
    /\ resumedBy' = "none"
    /\ pc' = "repair"

\* a loop that drains the queue before it loads the scripts
LoadFail_Drains ==
    /\ pc = "loading"
    /\ ~scriptsOk
    /\ EnterErrorState("script_load", TRUE)
    /\ queue' = <<>>
    /\ UNCHANGED <<waiter, wakes, nextId, drainedLog, drainIters, posted, diskVars, envVars,
                   roundVars, exitCode, budgetVars>>
    /\ UNCHANGED toolVars

\* lines 159-163: loadProvider or loadTools rejected
LoadFail ==
    /\ pc = "loading"
    /\ ~scriptsOk
    /\ EnterErrorState("script_load", TRUE)
    /\ UNCHANGED <<queueVars, diskVars, envVars, roundVars, exitCode, budgetVars>>
    /\ UNCHANGED toolVars

\* line 187: the user message made of a queue message
ToUserMsg(qm, n) == UserMsg(qm.id, qm.srcLen + 3 + qm.len, qm.tag, n)

\* a drain whose messages stay in memory until the end of the round
PersistDrained_Deferred(batch, context, onDisk) == onDisk

\* lines 193-196: what context.json holds after the drained messages were appended
PersistDrained(batch, context, onDisk) == IF Len(batch) > 0 THEN context ELSE onDisk

\* lines 177-216: drain, append, persist, prune, persist; then compaction or the LLM call
LoadOk ==
    /\ pc = "loading"
    /\ scriptsOk
    /\ exports # "noTool"
    /\ LET d == drain(queue)
           userMsgs == [i \in 1..Len(d.batch) |-> ToUserMsg(d.batch[i], iter + 1)]
           context == diskContext \o userMsgs
           saved == PersistDrained(d.batch, context, diskContext)
           pruned == pruneContext(context)
       IN  /\ queue' = d.rest
           /\ drainedLog' = drainedLog \o [i \in 1..Len(d.batch) |-> d.batch[i].id]
           /\ drainIters' = drainIters \o [i \in 1..Len(d.batch) |-> iter + 1]
           /\ roundMessages' = userMsgs
           /\ currentContext' = pruned
           /\ diskContext' = IF pruned # context THEN pruned ELSE saved
           /\ pc' = IF shouldCompress(pruned) THEN "compacting" ELSE "llm"
    /\ iter' = iter + 1
    /\ attempt' = 0
    /\ delays' = <<>>
    /\ calls' = <<>>
    /\ results' = <<>>
    /\ doneOrder' = <<>>
    /\ UNCHANGED <<waiter, wakes, nextId, posted, agentJson, history, histWrites,
                   envVars, state, errVars, budgetVars, lastWrite>>
    /\ UNCHANGED toolVars

\* lines 207-210: compressContext resolved (each chunk summarised, or its fallback text)
CompactOk ==
    /\ pc = "compacting"
    /\ findCompactionSplit(currentContext) # -1
    /\ \E summarised \in BOOLEAN :
          LET partLen == IF summarised THEN SummaryPartLen ELSE FallbackPartLen
              compacted == compressContext(currentContext, partLen)
          IN  /\ currentContext' = compacted
              /\ diskContext' = compacted
    /\ pc' = "llm"
    /\ UNCHANGED <<queueVars, agentJson, history, histWrites, envVars, state,
                   roundMessages, calls, results, attempt, delays, doneOrder, iter, lastWrite,
                   errVars, budgetVars>>
    /\ UNCHANGED toolVars

\* lines 211-213: compressContext rejected; the round goes on with the pruned context
CompactFail ==
    /\ pc = "compacting"
    /\ findCompactionSplit(currentContext) = -1
    /\ pc' = "llm"
    /\ UNCHANGED <<queueVars, diskVars, envVars, roundVars, errVars, budgetVars>>
    /\ UNCHANGED toolVars

\* lines 244-257: provider.chat rejected
LLMFail ==
    /\ pc = "llm"
    /\ IF attempt < LLM_ATTEMPTS - 1
       THEN /\ pc' = "backoff"
            /\ UNCHANGED <<errVars, llmErrors, attempt, delays, roundMessages>>
       ELSE /\ llmErrors < MaxLLMErrors
            /\ llmErrors' = llmErrors + 1
            /\ EnterErrorState("llm_call", TRUE)
            /\ attempt' = 0
            /\ delays' = <<>>
            /\ roundMessages' = <<>>
            /\ UNCHANGED exitCode
    /\ UNCHANGED <<queueVars, diskVars, envVars, state, currentContext, calls, results,
                   doneOrder, iter, lastWrite, noToolRetries, turns>>
    /\ UNCHANGED toolVars

\* a backoff that waits the same time after every failure
backoffDelay_Fixed(failed) == 2000

\* line 247: the delay after the failure of attempt number failed (0-based)
backoffDelay(failed) == (failed + 1) * 2000

\* lines 246-250: the backoff timer fired
Backoff ==
    /\ pc = "backoff"
    /\ attempt' = attempt + 1
    /\ delays' = Append(delays, backoffDelay(attempt))
    /\ pc' = "llm"
    /\ UNCHANGED <<queueVars, diskVars, envVars, state, currentContext, roundMessages,
                   calls, results, doneOrder, iter, lastWrite, errVars, budgetVars>>
    /\ UNCHANGED toolVars

\* the provider's tool calls for a shape: ids are fresh (assigned by the provider's API)
NewCalls(shape, n) ==
    [i \in 1..Len(shape) |-> [id |-> 10 * n + i, name |-> shape[i], chars |-> CallChars]]

\* results paired with the calls in the order the executions completed
collectResults_ByCompletion(cs, rs, order) ==
    [i \in 1..Len(cs) |-> ToolMsg(rs[order[i]].txt, rs[order[i]].len, cs[order[i]].id)]

\* the result of the last call is left out
collectResults_DropLast(cs, rs, order) ==
    [i \in 1..(Len(cs) - 1) |-> ToolMsg(rs[i].txt, rs[i].len, cs[i].id)]

\* lines 283-287: the tool messages pushed for the results of Promise.all
collectResults(cs, rs, order) ==
    [i \in 1..Len(cs) |-> ToolMsg(rs[i].txt, rs[i].len, cs[i].id)]

\* the state read at the start of the round written back with the round bumped
endOfRoundState_Stale(st, freshState) == [st EXCEPT !.round = st.round + 1]

\* lines 303-305: the agent.json written at the end of the round
endOfRoundState(st, freshState) == [freshState EXCEPT !.round = st.round + 1]

\* a record that holds the whole context
roundRecord_FullContext(ctx, rm) == ctx

\* lines 293-300: the messages field of the round record
roundRecord(ctx, rm) == rm

\* lines 290-330: persist the round, bump the round counter, nudge or wait
EndRound(ctx, rm, hasCalls, shouldWait) ==
    /\ diskContext' = ctx
    /\ history' = (state.round :> roundRecord(ctx, rm)) @@ history
    /\ histWrites' = Append(histWrites, state.round)
    /\ agentJson' = endOfRoundState(state, agentJson)
    /\ roundMessages' = <<>>
    /\ calls' = <<>>
    /\ results' = <<>>
    /\ attempt' = 0
    /\ delays' = <<>>
    /\ IF ~hasCalls
       THEN IF noToolRetries + 1 <= 2
            THEN /\ noToolRetries' = noToolRetries + 1
                 /\ currentContext' = Append(ctx, Msg("user", "nudge", 0, NudgeLen, <<>>, 0, {}, 0, 0))
            ELSE /\ noToolRetries' = 0
                 /\ currentContext' = ctx
       ELSE /\ noToolRetries' = 0
            /\ currentContext' = ctx
    /\ IF shouldWait
       THEN /\ status' = "waiting"
            /\ AwaitMessage
       ELSE /\ pc' = "top"
            /\ UNCHANGED <<status, waiter, wakes>>

\* lines 260-281 (and 290-330 when the response has no tool calls)
LLMAccept(maxTurns) ==
    /\ pc = "llm"
    /\ exports # "noProvider"
    /\ turns < maxTurns
    /\ turns' = turns + 1
    /\ \E shape \in Shapes :
          LET cs == NewCalls(shape, turns + 1)
              assistantMsg == AssistantMsg(IF shape = <<>> THEN AssistantTextLen ELSE 0, cs, iter)
          IN  IF cs = <<>>
              THEN EndRound(Append(currentContext, assistantMsg),
                            Append(roundMessages, assistantMsg), FALSE, FALSE)
              ELSE /\ calls' = cs
                   /\ currentContext' = Append(currentContext, assistantMsg)
                   /\ roundMessages' = Append(roundMessages, assistantMsg)
                   /\ results' = [i \in 1..Len(cs) |-> Running]
                   /\ pc' = "tools"
                   /\ UNCHANGED <<diskVars, status, waiter, wakes, noToolRetries, attempt, delays>>
    /\ UNCHANGED <<queue, nextId, drainedLog, drainIters, posted, envVars, state, doneOrder,
                   iter, lastWrite, error, polls, inTry, resumedBy, exitCode, llmErrors>>
    /\ UNCHANGED toolVars

LLMSuccess == LLMAccept(MaxTurns)

\* a tool's write of agent.json (write_file on /workspace/agent.json)
ToolWrite(write, aj) ==
    CASE write = "model" -> [aj EXCEPT !.model = "M2"]
      [] write = "round" -> [aj EXCEPT !.round = 0]
      [] OTHER -> aj

\* one executeToolCall promise of the turn settles
ToolFinish ==
    /\ pc = "tools"
    /\ \E i \in 1..Len(calls) :
          /\ results[i] = Running
          /\ \E o \in executeToolCall(calls[i].name) \ {Rejected} :
                /\ results' = [results EXCEPT ![i] = o]
                /\ agentJson' = ToolWrite(o.write, agentJson)
                /\ lastWrite' = IF o.write # "none" THEN o.write ELSE lastWrite
          /\ doneOrder' = Append(doneOrder, i)
    /\ UNCHANGED <<queueVars, diskContext, history, histWrites, envVars, state,
                   currentContext, roundMessages, calls, attempt, delays, iter, errVars, pc,
                   budgetVars>>
    /\ UNCHANGED toolVars

\* lines 279-281, 331-335: an executeToolCall promise rejected, so Promise.all
\* rejected and the catch-all ended the round; nothing of the turn is written
ToolRejects ==
    /\ pc = "tools"
    /\ \E i \in 1..Len(calls) :
          /\ results[i] = Running
          /\ Rejected \in executeToolCall(calls[i].name)
    /\ EnterErrorState("unknown", FALSE)
    /\ currentContext' = diskContext
    /\ roundMessages' = <<>>
    /\ calls' = <<>>
    /\ results' = <<>>
    /\ doneOrder' = <<>>
    /\ lastWrite' = "none"
    /\ UNCHANGED <<queueVars, diskVars, envVars, state, attempt, delays, iter, exitCode, budgetVars>>
    /\ UNCHANGED toolVars

\* a loop that lets the last result alone decide
shouldWaitOf_LastOnly(rs) == rs[Len(rs)].wait

\* lines 275, 286: shouldWait is set when any result asks for it
shouldWaitOf(rs) == \E i \in 1..Len(rs) : rs[i].wait

\* lines 283-330: Promise.all resolved
ToolsCollected ==
    /\ pc = "tools"
    /\ \A i \in 1..Len(calls) : results[i] # Running
    /\ LET toolMsgs == collectResults(calls, results, doneOrder)
       IN  EndRound(currentContext \o toolMsgs, roundMessages \o toolMsgs, TRUE,
                    shouldWaitOf(results))
    /\ UNCHANGED <<queue, nextId, drainedLog, drainIters, posted, envVars, state, doneOrder, iter,
                   lastWrite, error, polls, inTry, resumedBy, exitCode, turns, llmErrors>>
    /\ UNCHANGED toolVars

(***************************************************************************)
(* executor.ts: waitForExternalRepair                                      *)
(***************************************************************************)
\* a wait that returns with the error still set
Resume_KeepsError ==
    /\ pc' = "top"
    /\ polls' = 0
    /\ inTry' = TRUE
    /\ UNCHANGED <<status, error, exitCode>>

Resume ==
    /\ status' = "running"
    /\ error' = "none"
    /\ pc' = "top"
    /\ polls' = 0
    /\ inTry' = TRUE
    /\ UNCHANGED exitCode

\* lines 50-56: the signal file is there
PollSignal ==
    /\ pc = "repair"
    /\ polls < MaxPolls
    /\ signalFile
    /\ signalFile' = FALSE
    /\ signalStale' = FALSE
    /\ Resume
    /\ resumedBy' = "signal"
    /\ UNCHANGED <<queueVars, diskVars, scriptsOk, exports, roundVars, budgetVars>>
    /\ UNCHANGED toolVars

\* lines 58-63: no signal, the script probe loads
PollProbeOk ==
    /\ pc = "repair"
    /\ polls < MaxPolls
    /\ ~signalFile
    /\ scriptsOk
    /\ Resume
    /\ resumedBy' = "probe"
    /\ UNCHANGED <<queueVars, diskVars, envVars, roundVars, budgetVars>>
    /\ UNCHANGED toolVars

\* a repair wait that empties the queue at each poll
PollBroken_Drains ==
    /\ pc = "repair"
    /\ polls < MaxPolls
    /\ ~signalFile
    /\ ~scriptsOk
    /\ polls' = polls + 1
    /\ queue' = <<>>
    /\ UNCHANGED <<waiter, wakes, nextId, drainedLog, drainIters, posted, diskVars, envVars,
                   roundVars, status, error, inTry, resumedBy, exitCode, pc, budgetVars>>
    /\ UNCHANGED toolVars

\* lines 64-66: no signal, still broken
PollBroken ==
    /\ pc = "repair"
    /\ polls < MaxPolls
    /\ ~signalFile
    /\ ~scriptsOk
    /\ polls' = polls + 1
    /\ UNCHANGED <<queueVars, diskVars, envVars, roundVars, status, error, inTry, resumedBy, exitCode,
                   pc, budgetVars>>
    /\ UNCHANGED toolVars

\* line 68: 'no external repair within timeout'; thrown inside the try it reaches the
\* catch-all (lines 331-336), thrown inside the catch-all it ends executeLoop and the
\* process (agent.ts lines 239-242)
RepairTimeout ==
    /\ pc = "repair"
    /\ polls >= MaxPolls
    /\ IF inTry
       THEN /\ EnterErrorState("unknown", FALSE)
            /\ UNCHANGED exitCode
       ELSE /\ pc' = "exited"
            /\ exitCode' = 1
            /\ UNCHANGED <<status, error, polls, inTry, resumedBy>>
    /\ UNCHANGED <<queueVars, diskVars, envVars, roundVars, budgetVars>>
    /\ UNCHANGED toolVars

(***************************************************************************)
(* The environment                                                         *)
(***************************************************************************)
\* The executor looks at scripts/ and .repair-signal only when it loads the
\* scripts of a round and when it polls for a repair; a change made at any
\* other time is represented by the same change made at the next such point.
Observing == pc \in {"loading", "repair"}

\* a script under scripts/ is overwritten with text that does not load
BreakScripts ==
    /\ exitCode = -1
    /\ Observing
    /\ scriptsOk
    /\ scriptsOk' = FALSE
    /\ UNCHANGED <<queueVars, diskVars, exports, signalFile, signalStale, roundVars, errVars, pc, budgetVars>>
    /\ UNCHANGED toolVars

\* the script is restored
FixScripts ==
    /\ exitCode = -1
    /\ Observing
    /\ ~scriptsOk
    /\ scriptsOk' = TRUE
    /\ UNCHANGED <<queueVars, diskVars, exports, signalFile, signalStale, roundVars, errVars, pc, budgetVars>>
    /\ UNCHANGED toolVars

\* server.ts: POST /repair-signal
PostRepairSignal ==
    /\ exitCode = -1
    /\ Observing
    /\ ~signalFile
    /\ signalFile' = TRUE
    /\ signalStale' = (status # "error")
    /\ UNCHANGED <<queueVars, diskVars, scriptsOk, exports, roundVars, errVars, pc, budgetVars>>
    /\ UNCHANGED toolVars

Next ==
    \/ Push
    \/ Start
    \/ IterStart
    \/ LoadFail
    \/ LoadOk
    \/ CompactOk
    \/ CompactFail
    \/ LLMFail
    \/ Backoff
    \/ LLMSuccess
    \/ ToolFinish
    \/ ToolRejects
    \/ ToolsCollected
    \/ PollSignal
    \/ PollProbeOk
    \/ PollBroken
    \/ RepairTimeout
    \/ BreakScripts
    \/ FixScripts
    \/ PostRepairSignal

Spec == Init /\ [][Next]_vars

(***************************************************************************)
(* The executor with script modules that load but export nothing           *)
(***************************************************************************)
\* loader.ts lines 9, 21: mod.default of such a module is undefined and is
\* returned as the provider, or pushed as a tool, without a check.

\* lines 166-173: userTools.map reads t.name of an undefined tool; the
\* TypeError reaches the catch-all (lines 331-336)
ToolDefsThrow ==
    /\ pc = "loading"
    /\ scriptsOk
    /\ exports = "noTool"
    /\ EnterErrorState("unknown", FALSE)
    /\ UNCHANGED <<queueVars, diskVars, envVars, roundVars, exitCode, budgetVars>>
    /\ UNCHANGED toolVars

\* the active provider script or a tool script is overwritten with a module
\* that has no default export
RemoveExport ==
    /\ exitCode = -1
    /\ Observing
    /\ exports = "all"
    /\ exports' \in {"noProvider", "noTool"}
    /\ UNCHANGED <<queueVars, diskVars, scriptsOk, signalFile, signalStale, roundVars, errVars,
                   pc, budgetVars>>
    /\ UNCHANGED toolVars

\* the script is restored
RestoreExport ==
    /\ exitCode = -1
    /\ Observing
    /\ exports # "all"
    /\ exports' = "all"
    /\ UNCHANGED <<queueVars, diskVars, scriptsOk, signalFile, signalStale, roundVars, errVars,
                   pc, budgetVars>>
    /\ UNCHANGED toolVars

ExportNext ==
    \/ Push
    \/ Start
    \/ IterStart
    \/ LoadFail
    \/ LoadOk
    \/ ToolDefsThrow
    \/ LLMFail
    \/ Backoff
    \/ LLMSuccess
    \/ ToolFinish
    \/ ToolsCollected
    \/ PollSignal
    \/ PollProbeOk
    \/ PollBroken
    \/ RepairTimeout
    \/ BreakScripts
    \/ FixScripts
    \/ PostRepairSignal
    \/ RemoveExport
    \/ RestoreExport

ExportSpec == Init /\ [][ExportNext]_vars

(***************************************************************************)
(* The executor without failures, followed for more turns: rounds in which *)
(* the provider answers with or without tool calls                         *)
(***************************************************************************)
NudgeIterStart == IterStartUpTo(MaxNudgeTurns)

LLMTurn == LLMAccept(MaxNudgeTurns)

NudgeNext ==
    \/ Push
    \/ Start
    \/ NudgeIterStart
    \/ LoadOk
    \/ CompactOk
    \/ CompactFail
    \/ LLMTurn
    \/ ToolFinish
    \/ ToolsCollected

NudgeSpec == Init /\ [][NudgeNext]_vars

(***************************************************************************)
(* Reply delivery on its own: reply calls with every source, against every *)
(* routes.json; the executor stands still                                  *)
(***************************************************************************)
executorVars == <<queueVars, diskVars, envVars, roundVars, errVars, budgetVars, pc>>

\* routes.json is written, replaced or removed (by the operator, a bridge, or a tool)
WriteRoutes ==
    /\ \E file \in RouteFiles \ {routesJson} : routesJson' = file
    /\ UNCHANGED <<outbox, requests, replyResults, deleteLog, executorVars, replyOthers>>

\* tool-exec.ts lines 35-51: executeToolCall for reply(source, content)
ReplyCall ==
    /\ Len(replyResults) < MaxReplies
    /\ \E source \in Sources, content \in Contents, endpointOk \in BOOLEAN :
          LET delivery == deliverReply(loadRoutes(routesJson), source, content, endpointOk,
                                       Len(replyResults) + 1)
          IN  /\ requests' = requests \o delivery.request
              /\ outbox' = outbox \o delivery.file
              /\ replyResults' = Append(replyResults,
                                        [source |-> source, content |-> content,
                                         result |-> replyToolResult(delivery)])
    /\ UNCHANGED <<routesJson, deleteLog, executorVars, replyOthers>>

\* server.ts lines 140-147: what GET /outbox answers with
readOutbox(files) == files

\* a handler that answers 200 without unlinking the file
deleteOutbox_KeepsFile(files, id) ==
    IF \E i \in 1..Len(files) : files[i].id = id
    THEN [status |-> 200, files |-> files]
    ELSE [status |-> 404, files |-> files]

\* server.ts lines 98-113: existsSync, then unlinkSync and 200, or 404
deleteOutbox(files, id) ==
    LET Other(f) == f.id # id
    IN  IF \E i \in 1..Len(files) : files[i].id = id
        THEN [status |-> 200, files |-> SelectSeq(files, Other)]
        ELSE [status |-> 404, files |-> files]

\* DELETE /outbox/:id, for the id of a file that was written or for one that never was
DeleteOutbox ==
    /\ Len(deleteLog) < MaxDeletes
    /\ \E id \in 0..MaxReplies :
          LET answer == deleteOutbox(outbox, id)
          IN  /\ outbox' = answer.files
              /\ deleteLog' = Append(deleteLog, [id |-> id, status |-> answer.status])
    /\ UNCHANGED <<routesJson, requests, replyResults, executorVars, replyOthers>>

ReplyNext ==
    \/ WriteRoutes
    \/ ReplyCall
    \/ DeleteOutbox

ReplySpec == Init /\ [][ReplyNext]_vars

(***************************************************************************)
(* scripts/tools/bash.js, bash_kill.js: the background job registry        *)
(***************************************************************************)
ASYNC_THRESHOLD_MS == 5000

\* the timeout argument of a call: below, at and above the threshold; 60000 is the default
Timeouts == {1000, 5000, 60000}

BashSourceChars == 11            \* 'system:bash'.length
BashNoticeLen == 80              \* content.length of 'Background job ... finished ...'

\* lines 86, 98: setTimeout(..., forceAsync ? 0 : ASYNC_THRESHOLD_MS)
thresholdMs(forceAsync) == IF forceAsync THEN 0 ELSE ASYNC_THRESHOLD_MS

\* lines 43-98: bash.execute up to the return of its promise: the output file
\* is opened, the child spawned, the kill timer and the threshold timer armed
BashExecute(c) ==
    /\ exitCode = -1
    /\ bash[c] = Idle
    /\ \A d \in 1..(c - 1) : bash[d] # Idle
    /\ \E forceAsync \in BOOLEAN, timeout \in Timeouts :
          bash' = [bash EXCEPT ![c] =
                      [Idle EXCEPT !.child = "running",
                                   !.forceAsync = forceAsync,
                                   !.timeout = timeout,
                                   !.file = "open",
                                   !.fd = "open",
                                   !.killTimer = IF ~forceAsync /\ timeout > 0
                                                 THEN "armed" ELSE "none",
                                   !.asyncTimer = "armed"]]
    /\ UNCHANGED <<jobs, forceTimers, killLog, inFlightPosts, executorVars, bashOthers>>

\* lines 68-72: the kill timer fires. Armed before the threshold timer, it runs
\* before it exactly when its delay is not longer.
KillTimerFires(c) ==
    /\ exitCode = -1
    /\ bash[c].killTimer = "armed"
    /\ bash[c].asyncTimer = "armed" => bash[c].timeout <= thresholdMs(bash[c].forceAsync)
    /\ bash' = [bash EXCEPT ![c].killTimer = "fired",
                            ![c].signals = IF ~bash[c].resolved /\ bash[c].child = "running"
                                           THEN @ \cup {"timeout"} ELSE @]
    /\ UNCHANGED <<jobs, forceTimers, killLog, inFlightPosts, executorVars, bashOthers>>

\* a threshold timer that returns the async result without setting resolved
afterThreshold_NotResolved(job) ==
    [job EXCEPT !.asyncTimer = "fired",
                !.killTimer = IF @ = "armed" THEN "cleared" ELSE @,
                !.results = Append(@, "async")]

\* lines 87-98: the command goes to the background
afterThreshold(job) ==
    [job EXCEPT !.resolved = TRUE,
                !.asyncTimer = "fired",
                !.killTimer = IF @ = "armed" THEN "cleared" ELSE @,
                !.results = Append(@, "async")]

\* lines 87-98: the threshold timer fires; a kill timer with a shorter or equal
\* delay has fired before it
ThresholdFires(c) ==
    /\ exitCode = -1
    /\ bash[c].asyncTimer = "armed"
    /\ ~(bash[c].killTimer = "armed" /\ bash[c].timeout <= thresholdMs(bash[c].forceAsync))
    /\ IF bash[c].resolved
       THEN /\ bash' = [bash EXCEPT ![c].asyncTimer = "fired"]
            /\ UNCHANGED jobs
       ELSE /\ bash' = [bash EXCEPT ![c] = afterThreshold(bash[c])]
            /\ jobs' = jobs \cup {c}
    /\ UNCHANGED <<forceTimers, killLog, inFlightPosts, executorVars, bashOthers>>

\* a close handler that forgets the registry
afterClose_KeepsJob(registry, c) == registry

\* lines 100-107: cleanup deletes the job
afterClose(registry, c) == registry \ {c}

\* a close handler that notifies the agent without closing the output file
\* with its exit line
afterAsyncClose_NoExitLine(job, by) ==
    [job EXCEPT !.child = "closed",
                !.endedBy = by,
                !.killTimer = IF @ = "armed" THEN "cleared" ELSE @,
                !.posts = @ + 1]

\* lines 100-107, 122-132: the close of a command that is in the background:
\* cleanup writes '[exit code: N]' and closes the file, then the notification
\* is sent
afterAsyncClose(job, by) ==
    [job EXCEPT !.child = "closed",
                !.endedBy = by,
                !.killTimer = IF @ = "armed" THEN "cleared" ELSE @,
                !.file = "kept",
                !.fd = "closed",
                !.exitLine = TRUE,
                !.posts = @ + 1]

\* agent.ts lines 38-41: an exception thrown in an event handler is an
\* uncaughtException: the crash log is written and the process exits with 1
UncaughtException ==
    /\ exitCode' = 1
    /\ pc' = "exited"
    /\ UNCHANGED <<queueVars, diskVars, envVars, roundVars, status, error, polls, inTry,
                   resumedBy, budgetVars>>

\* the signal that ended a child that did not end by itself
Killers(job) ==
    {"timeout" : x \in {1 : y \in job.signals \cap {"timeout"}}}
        \cup {"bash_kill" : x \in {1 : y \in job.signals \cap {"bash_kill", "force"}}}

\* lines 109-134: the child's close event. With a timer of delay 0 pending
\* (async: true) the timers phase of the event loop runs before the close
\* event can be delivered.
\* With resolved set and the descriptor closed already (by the error
\* handler), fs.writeSync in cleanup throws EBADF out of the handler.
ChildCloses(c) ==
    /\ exitCode = -1
    /\ bash[c].child = "running"
    /\ ~(bash[c].forceAsync /\ bash[c].asyncTimer = "armed")
    /\ \E by \in {"self"} \cup Killers(bash[c]) :
          IF ~bash[c].resolved
          THEN /\ bash' = [bash EXCEPT ![c].child = "closed",
                                       ![c].endedBy = by,
                                       ![c].resolved = TRUE,
                                       ![c].asyncTimer = "cleared",
                                       ![c].killTimer = IF @ = "armed" THEN "cleared" ELSE @,
                                       ![c].file = "removed",
                                       ![c].fd = "closed",
                                       ![c].results = Append(@, "inline")]
               /\ UNCHANGED <<jobs, inFlightPosts, executorVars>>
          ELSE IF bash[c].fd = "closed"
          THEN /\ bash' = [bash EXCEPT ![c].child = "closed",
                                       ![c].endedBy = by,
                                       ![c].killTimer = IF @ = "armed" THEN "cleared" ELSE @,
                                       ![c].threw = TRUE]
               /\ UncaughtException
               /\ UNCHANGED <<jobs, inFlightPosts>>
          ELSE /\ bash' = [bash EXCEPT ![c] = afterAsyncClose(bash[c], by)]
               /\ jobs' = afterClose(jobs, c)
               /\ inFlightPosts' = inFlightPosts \cup {c}
               /\ UNCHANGED executorVars
    /\ UNCHANGED <<forceTimers, killLog, bashOthers>>

\* lines 136-148: the child's error event (the spawn failed, or a signal
\* could not be sent).  Before the command has returned, the descriptor is
\* closed, the file removed and 'ERROR: ...' returned; afterwards an
\* '[error]' line is written and cleanup closes the file and deletes the job.
\* The close event is still to come.
ChildError(c) ==
    /\ exitCode = -1
    /\ bash[c].child = "running"
    /\ ~bash[c].errored
    /\ IF ~bash[c].resolved
       THEN /\ bash' = [bash EXCEPT ![c].errored = TRUE,
                                    ![c].resolved = TRUE,
                                    ![c].asyncTimer = IF @ = "armed" THEN "cleared" ELSE @,
                                    ![c].killTimer = IF @ = "armed" THEN "cleared" ELSE @,
                                    ![c].file = "removed",
                                    ![c].fd = "closed",
                                    ![c].results = Append(@, "error")]
            /\ UNCHANGED jobs
       ELSE /\ bash' = [bash EXCEPT ![c].errored = TRUE,
                                    ![c].asyncTimer = IF @ = "armed" THEN "cleared" ELSE @,
                                    ![c].killTimer = IF @ = "armed" THEN "cleared" ELSE @,
                                    ![c].file = "kept",
                                    ![c].fd = "closed",
                                    ![c].exitLine = TRUE]
            /\ jobs' = afterClose(jobs, c)
    /\ UNCHANGED <<forceTimers, killLog, inFlightPosts, executorVars, bashOthers>>

\* bash_kill.js lines 14-28: bash_kill({id})
BashKill ==
    /\ exitCode = -1
    /\ Len(killLog) < MaxKills
    /\ \E id \in 1..(MaxCommands + 1) :
          IF id \in jobs
          THEN /\ bash' = [bash EXCEPT ![id].signals = @ \cup {"bash_kill"}]
               /\ forceTimers' = forceTimers \cup {id}
               /\ killLog' = Append(killLog, [id |-> id, answer |-> "killed"])
          ELSE /\ killLog' = Append(killLog, [id |-> id, answer |-> "no running job"])
               /\ UNCHANGED <<bash, forceTimers>>
    /\ UNCHANGED <<jobs, inFlightPosts, executorVars, bashOthers>>

\* bash_kill.js line 23: two seconds later, SIGKILL if the child is still there
ForceKillFires(c) ==
    /\ exitCode = -1
    /\ c \in forceTimers
    /\ forceTimers' = forceTimers \ {c}
    /\ bash' = [bash EXCEPT ![c].signals = IF bash[c].child = "running"
                                           THEN @ \cup {"force"} ELSE @]
    /\ UNCHANGED <<jobs, killLog, inFlightPosts, executorVars, bashOthers>>

\* lines 125-132 and server.ts POST /message: the notification reaches the
\* agent's own server and is pushed into the queue
PostArrives(c) ==
    /\ c \in inFlightPosts
    /\ exitCode = -1
    /\ inFlightPosts' = inFlightPosts \ {c}
    /\ bash' = [bash EXCEPT ![c].msgId = nextId + 1]
    /\ queue' = Append(queue, [id |-> nextId + 1, srcLen |-> BashSourceChars,
                               len |-> BashNoticeLen, tag |-> InFlight])
    /\ nextId' = nextId + 1
    /\ posted' = posted \cup {nextId + 1}
    /\ IF pushWakes(waiter)
       THEN /\ waiter' = FALSE
            /\ wakes' = wakes + 1
            /\ pc' = IF pc = "blocked" THEN "top" ELSE pc
       ELSE UNCHANGED <<waiter, wakes, pc>>
    /\ UNCHANGED <<drainedLog, drainIters, diskVars, envVars, roundVars, errVars, budgetVars>>
    /\ UNCHANGED <<jobs, forceTimers, killLog, bashOthers>>

\* line 132: .catch(() => {}): the POST fails and is dropped
PostLost(c) ==
    /\ exitCode = -1
    /\ c \in inFlightPosts
    /\ inFlightPosts' = inFlightPosts \ {c}
    /\ UNCHANGED <<bash, jobs, forceTimers, killLog, executorVars, bashOthers>>

\* The executor is followed from its wait to the drain of the round that the
\* notification starts.
BashNext ==
    \/ \E c \in 1..MaxCommands : BashExecute(c)
    \/ \E c \in 1..MaxCommands : KillTimerFires(c)
    \/ \E c \in 1..MaxCommands : ThresholdFires(c)
    \/ \E c \in 1..MaxCommands : ChildCloses(c)
    \/ BashKill
    \/ \E c \in 1..MaxCommands : ForceKillFires(c)
    \/ \E c \in 1..MaxCommands : PostArrives(c)
    \/ \E c \in 1..MaxCommands : PostLost(c)
    \/ Start
    \/ IterStart
    \/ LoadOk

BashInit == Init /\ agentJson.maxRounds = 0 /\ diskContext = <<>>

BashSpec == BashInit /\ [][BashNext]_vars

\* bash.execute with a child that can emit 'error' as well as 'close'
BashErrorNext ==
    \/ \E c \in 1..MaxCommands : BashExecute(c)
    \/ \E c \in 1..MaxCommands : KillTimerFires(c)
    \/ \E c \in 1..MaxCommands : ThresholdFires(c)
    \/ \E c \in 1..MaxCommands : ChildError(c)
    \/ \E c \in 1..MaxCommands : ChildCloses(c)

BashErrorSpec == BashInit /\ [][BashErrorNext]_vars

(***************************************************************************)
(* The context thresholds: the first round of a restart on workspaces      *)
(* whose context, with the restart notification appended, has a size at    *)
(* or next to a threshold                                                  *)
(***************************************************************************)
\* content.length of the oldest tool result: at and next to the minimum
\* lengths of the hard clear and of the soft trim, and a large one
OldResultLens == {HARD_CLEAR_MIN, HARD_CLEAR_MIN + 1, SOFT_TRIM_THRESHOLD,
                  SOFT_TRIM_THRESHOLD + 1, 60000}

\* the estimated size of the context the round starts on
BoundarySizes ==
    {PRUNE_SOFT_CHARS - 1, PRUNE_SOFT_CHARS, PRUNE_SOFT_CHARS + 1,
     PRUNE_HARD_CHARS - 1, PRUNE_HARD_CHARS, PRUNE_HARD_CHARS + 1,
     COMPACT_CHARS - 1, COMPACT_CHARS,
     COMPACT_CHARS + 60000 - CLEARED_PLACEHOLDER_LEN - 1,
     COMPACT_CHARS + 60000 - CLEARED_PLACEHOLDER_LEN}

\* four completed rounds; the first user message is as long as it takes for
\* the context and the restart notification to have the size wanted
BoundaryContext(size, resultLen) ==
    LET rest == <<AssistantMsg(0, <<OldCall(101, "tool")>>, 0), ToolMsg("result", resultLen, 101)>>
                    \o OldRound2 \o OldRound3 \o OldRound4
        firstLen == size - estimateContextChars(rest) - (RestartChars + 3 + RestartLen)
    IN  <<Msg("user", "old", 0, firstLen, <<>>, 0, {}, 0, 0)>> \o rest

BoundaryWorkspaces ==
    {[agent |-> [round |-> 4, model |-> "M1", maxRounds |-> 0],
      context |-> BoundaryContext(size, resultLen),
      history |-> OldHistory,
      queue |-> <<[id |-> 1, srcLen |-> RestartChars, len |-> RestartLen, tag |-> 0]>>] :
        size \in BoundarySizes, resultLen \in OldResultLens}

PruneInit == (\E w \in BoundaryWorkspaces \cup Workspaces : InitOn(w)) /\ Booted

PruneNext ==
    \/ Push
    \/ Start
    \/ IterStart
    \/ LoadOk
    \/ CompactOk
    \/ CompactFail

PruneSpec == PruneInit /\ [][PruneNext]_vars

(***************************************************************************)
(* memory.ts: pruneContext and repairToolPairing on their own, each called *)
(* once with a message sequence from a bounded set                         *)
(***************************************************************************)
\* a user message, assistant messages without calls, with one call and with
\* two, and the tool results of the calls 1 and 2
RepairMessages ==
    {Msg("user", "old", 0, 10, <<>>, 0, {}, 0, 0),
     AssistantMsg(AssistantTextLen, <<>>, 0),
     AssistantMsg(0, <<OldCall(1, "tool")>>, 0),
     AssistantMsg(0, <<OldCall(2, "tool")>>, 0),
     AssistantMsg(0, <<OldCall(1, "tool"), OldCall(2, "tool")>>, 0),
     ToolMsg("result", 20, 1),
     ToolMsg("result", 20, 2)}

RepairInputs == UNION {[1..n -> RepairMessages] : n \in 0..MaxRepairLen}

\* the messages of rounds k, k+1, ...: an assistant message with text only
\* (result length 0), or one with a tool call and its result of that length
RECURSIVE PruneRounds(_, _)
PruneRounds(resultLens, k) ==
    IF resultLens = <<>> THEN <<>>
    ELSE (IF Head(resultLens) = 0
          THEN <<AssistantMsg(AssistantTextLen, <<>>, 0)>>
          ELSE <<AssistantMsg(0, <<OldCall(k, "tool")>>, 0),
                 ToolMsg("result", Head(resultLens), k)>>)
         \o PruneRounds(Tail(resultLens), k + 1)

\* a first user message that puts the context below the soft threshold,
\* between the two thresholds or above the hard one, then up to MaxPruneRounds
\* rounds with results that neither, only the hard clear, or both rewrite
PruneInputs ==
    {<<Msg("user", "old", 0, first, <<>>, 0, {}, 0, 0)>> \o PruneRounds(resultLens, 1) :
        first \in {10, 90000, 130000},
        resultLens \in UNION {[1..n -> {0, 50, 200, 5000}] : n \in 0..MaxPruneRounds}}

\* lines 94-131: pruneContext(messages) returns
PruneCall ==
    /\ returned.fn = "none"
    /\ returned' = [fn |-> "pruneContext", out |-> pruneContext(argMessages)]
    /\ UNCHANGED <<argMessages, executorVars, replyVars, bashVars, formatVars, bootVars>>

\* lines 140-189: repairToolPairing(messages) returns
RepairCall ==
    /\ returned.fn = "none"
    /\ returned' = [fn |-> "repairToolPairing", out |-> repairToolPairing(argMessages)]
    /\ UNCHANGED <<argMessages, executorVars, replyVars, bashVars, formatVars, bootVars>>

MemoryNext == PruneCall \/ RepairCall

MemoryInit ==
    /\ \E w \in Workspaces : w.agent.maxRounds = 0 /\ w.context = <<>> /\ InitOn(w)
    /\ spawnWorker = FALSE
    /\ ws = NewWorkspace("worker")
    /\ ws0 = NewWorkspace("worker")
    /\ bootPc = "serving"
    /\ argMessages \in RepairInputs \cup PruneInputs
    /\ returned = [fn |-> "none", out |-> <<>>]

MemorySpec == MemoryInit /\ [][MemoryNext]_vars

(***************************************************************************)
(* agent.ts: startup up to createServer                                    *)
(***************************************************************************)
\* no agent.json: initWorkspace has not run on this directory
NoWorkspace ==
    [exists |-> FALSE, role |-> "none", round |-> 0, contextFile |-> FALSE, context |-> <<>>,
     history |-> {}, prompt |-> "none", skills |-> "none"]

\* the workspaces a process can start on: none, or one left by a root or a
\* worker, as it was or cloned
BootWorkspaces ==
    {NoWorkspace} \cup
    {[exists |-> TRUE, role |-> r, round |-> n, contextFile |-> TRUE, context |-> c,
      history |-> h, prompt |-> r, skills |-> r] :
        r \in {"root", "worker"}, n \in 0..MaxBootRound,
        c \in UNION {[1..k -> {"boot", "plain"}] : k \in 0..MaxBootContext},
        h \in SUBSET (0..(MaxBootRound - 1))} \cup
    {[exists |-> TRUE, role |-> r, round |-> n, contextFile |-> FALSE, context |-> <<>>,
      history |-> {}, prompt |-> r, skills |-> r] :
        r \in {"root", "worker"}, n \in 0..MaxBootRound}

\* lines 49, 53
roleOf(isRootSpawner) == IF isRootSpawner THEN "root" ELSE "worker"

\* init.ts lines 83-143
initWorkspace(w, role) == IF w.exists THEN w ELSE NewWorkspace(role)

\* lines 70-80: some context message includes '[system:boot]'
hasBootMessage(w) ==
    w.contextFile /\ \E i \in 1..Len(w.context) : w.context[i] = "boot"

\* a guard that does not look at the round
inherited_RoleOrBoot(w) == hasBootMessage(w) \/ w.role = "root"

\* lines 66-97: inherited; a missing context.json counts as []
inherited(w) ==
    \/ hasBootMessage(w)
    \/ w.role = "root"
    \/ w.round > 0 /\ Len(w.context) <= 1

\* lines 99-139
resetToWorker(w) ==
    [w EXCEPT !.contextFile = TRUE, !.context = <<>>, !.round = 0, !.role = "worker",
              !.prompt = "worker", !.skills = "worker", !.history = {}]

\* line 61
BootInitWorkspace ==
    /\ bootPc = "init"
    /\ ws' = initWorkspace(ws, roleOf(spawnWorker))
    /\ bootPc' = "guard"
    /\ UNCHANGED <<spawnWorker, ws0, executorVars, replyVars, bashVars, formatVars, memoryVars>>

\* lines 63-141
InheritedGuard ==
    /\ bootPc = "guard"
    /\ ws' = IF ~spawnWorker /\ inherited(ws) THEN resetToWorker(ws) ELSE ws
    /\ bootPc' = "ready"
    /\ UNCHANGED <<spawnWorker, ws0, executorVars, replyVars, bashVars, formatVars, memoryVars>>

\* lines 159-235: createServer, then the loop is started
CreateServer ==
    /\ bootPc = "ready"
    /\ bootPc' = "serving"
    /\ UNCHANGED <<spawnWorker, ws, ws0, executorVars, replyVars, bashVars, formatVars, memoryVars>>

BootNext ==
    \/ BootInitWorkspace
    \/ InheritedGuard
    \/ CreateServer

BootInit ==
    /\ \E w \in Workspaces : w.agent.maxRounds = 0 /\ w.context = <<>> /\ InitOn(w)
    /\ spawnWorker \in BOOLEAN
    /\ ws \in BootWorkspaces
    /\ ws0 = ws
    /\ bootPc = "init"
    /\ argMessages = <<>>
    /\ returned = [fn |-> "none", out |-> <<>>]

BootSpec == BootInit /\ [][BootNext]_vars

(***************************************************************************)
(* scripts/tools/bash.js: the inline result of a command that closes       *)
(* before the threshold                                                    *)
(***************************************************************************)
MAX_INLINE_LINES == 100
PREVIEW_LINES == 50

\* line 21: output.split('\n').length
splitLength(output) == output.newlines + 1

\* lines 19-29: formatResult
formatResult(output) ==
    IF output = NoOutput
    THEN [kind |-> "(no output)", shown |-> 0, total |-> 0, saved |-> FALSE]
    ELSE IF splitLength(output) <= MAX_INLINE_LINES
         THEN [kind |-> "full", shown |-> splitLength(output),
               total |-> splitLength(output), saved |-> FALSE]
         ELSE [kind |-> "truncated", shown |-> PREVIEW_LINES,
               total |-> splitLength(output), saved |-> TRUE]

\* lines 115-117: the output of a command that closed with this exit code
\* (stderr empty): 'Exit code: 1\nStderr: \nStdout: ' + inlineStdout
closeOutput(code, out) ==
    IF code = 0
    THEN out
    ELSE [newlines |-> out.newlines + 2,
          tail |-> IF out.newlines = 0 THEN TRUE ELSE out.tail]

\* lines 76-79: the child writes text that does not end a line
StdoutText ==
    /\ inline = NotClosed
    /\ ~stdout.tail
    /\ stdout' = [stdout EXCEPT !.tail = TRUE]
    /\ UNCHANGED <<inline, executorVars, replyVars, bashVars, bootVars, memoryVars>>

\* lines 76-79: the child writes a newline
StdoutNewline ==
    /\ inline = NotClosed
    /\ stdout.newlines < MaxNewlines
    /\ stdout' = [newlines |-> stdout.newlines + 1, tail |-> FALSE]
    /\ UNCHANGED <<inline, executorVars, replyVars, bashVars, bootVars, memoryVars>>

\* lines 109-121: the close event before the threshold: the streaming file is
\* removed and formatResult(output) returned
InlineClose ==
    /\ inline = NotClosed
    /\ \E code \in {0, 1} :
          LET output == closeOutput(code, stdout)
              r == formatResult(output)
          IN  inline' = [kind |-> r.kind, shown |-> r.shown, total |-> r.total,
                         saved |-> r.saved, stream |-> "removed", output |-> output]
    /\ UNCHANGED <<stdout, executorVars, replyVars, bashVars, bootVars, memoryVars>>

FormatNext ==
    \/ StdoutText
    \/ StdoutNewline
    \/ InlineClose

FormatSpec == Init /\ [][FormatNext]_vars

(***************************************************************************)
(* Properties                                                              *)
(***************************************************************************)
IsQueueMsg(m) == m.role = "user" /\ m.txt = "queue"
IsSummary(m) == m.role = "user" /\ m.txt = "summary"
QueueIds(q) == [i \in 1..Len(q) |-> q[i].id]
CallIds(m) == {m.calls[k].id : k \in 1..Len(m.calls)}
Positions(ctx, Test(_)) == {i \in 1..Len(ctx) : Test(ctx[i])}
IsAssistant(m) == m.role = "assistant"
IsTool(m) == m.role = "tool"

\* the ids of the queue messages some written round record holds
RecordedIds ==
    UNION {{history[r][i].id : i \in Positions(history[r], IsQueueMsg)} : r \in DOMAIN history}

\* C1: every message accepted by POST /message ends up in a written history
\* round record.  Once the executor is back in its wait on an empty queue no
\* step is enabled until the next push, so by then every accepted message
\* must already be in a round record.
C1_AcceptedMessageRecorded ==
    pc = "blocked" => posted \subseteq RecordedIds

C4_ResultsInCallOrder ==
    [][(pc = "tools" /\ pc' # "tools" /\ Len(doneOrder) = Len(calls)) =>
          LET n == Len(calls)
              record == history'[state.round]
          IN  /\ Len(diskContext') = Len(currentContext) + n
              /\ SubSeq(diskContext', 1, Len(currentContext)) = currentContext
              /\ Len(record) = Len(roundMessages) + n
              /\ SubSeq(record, 1, Len(roundMessages)) = roundMessages
              /\ \A k \in 1..n :
                    /\ IsTool(diskContext'[Len(currentContext) + k])
                    /\ diskContext'[Len(currentContext) + k].callId = calls[k].id
                    /\ record[Len(roundMessages) + k] = diskContext'[Len(currentContext) + k]
    ]_vars

\* the second call of a turn completed before the first and the turn is recorded
C4_Witness ==
    /\ doneOrder = <<2, 1>>
    /\ pc # "tools"
    /\ histWrites # <<>>

\* C5: queue messages are in the persisted context in push order; the
\* assistant message of a round comes after every message its iteration
\* drained; a message pushed after the drain of a round comes after that
\* round's assistant message and tool results.
C5_PushOrderKept ==
    /\ \A i, j \in Positions(diskContext, IsQueueMsg) :
          i < j => diskContext[i].id < diskContext[j].id
    /\ \A i \in Positions(diskContext, IsQueueMsg) :
       \A j \in Positions(diskContext, IsAssistant) :
          /\ diskContext[i].din = diskContext[j].tag => i < j
          /\ (diskContext[i].tag # 0 /\ diskContext[i].tag = diskContext[j].tag)
                => j + Len(diskContext[j].calls) < i

\* a drained message, the assistant turn of its round with a tool result, and
\* then a message pushed while that round was in flight
C5_Witness ==
    \E i, l \in Positions(diskContext, IsQueueMsg) :
    \E j \in Positions(diskContext, IsAssistant) :
        /\ diskContext[i].din = diskContext[j].tag
        /\ diskContext[l].tag = diskContext[j].tag
        /\ diskContext[j].calls # <<>>
        /\ i < j /\ j < l

C7_NoLostWakeup ==
    /\ waiter => queue = <<>> /\ pc = "blocked"
    /\ pc = "blocked" => waiter
    /\ wakes <= 1
    /\ drainedLog \o QueueIds(queue) = [i \in 1..nextId |-> i]

\* a message was drained, the executor blocked, and a push woke it once
C7_Witness ==
    /\ drainedLog = <<1>>
    /\ wakes = 1
    /\ queue # <<>>
    /\ ~waiter

\* C8: the round of agent.json seen at round boundaries (whenever no tool
\* call is running) never decreases, also when a tool wrote a smaller round
\* while the round ran.
C8_RoundNonDecreasing ==
    [][pc' # "tools" =>
          agentJson'.round >= (IF pc # "tools" THEN agentJson.round ELSE state.round)]_vars

\* C9: every provider response accepted as an assistant turn is recorded,
\* under the round after the previous turn's, and no history/round-N file is
\* written twice.
C9_RoundsConsecutive ==
    /\ \A i \in 1..(Len(histWrites) - 1) : histWrites[i + 1] = histWrites[i] + 1
    /\ pc # "tools" => Len(histWrites) = turns
    /\ histWrites # <<>> => Cardinality(DOMAIN history) = histWrites[1] + Len(histWrites)

\* C10: the write at the end of a round keeps every field of the agent.json
\* it re-reads, tool edits of the model included, and sets round to the round
\* read at the start of the round plus one.
C10_EndOfRoundKeepsFields ==
    [][Len(histWrites') > Len(histWrites) =>
          /\ agentJson'.model = agentJson.model
          /\ agentJson'.maxRounds = agentJson.maxRounds
          /\ agentJson'.round = state.round + 1]_vars

\* a tool changed the model during the round that has just ended
C10_Witness ==
    /\ lastWrite = "model"
    /\ pc # "tools"
    /\ agentJson.model = "M2"
    /\ agentJson.round = state.round + 1

\* the ids of the queue messages drained by iteration k
DrainedBy(k) == {drainedLog[i] : i \in {j \in 1..Len(drainedLog) : drainIters[j] = k}}

\* C11: the round record a round writes holds exactly the messages the round
\* appended to the context, in order: the user messages of the queue messages
\* it drained, its one assistant message, and the tool results of that
\* message's calls; nothing of the earlier context.
C11_RecordHoldsRoundMessages ==
    [][Len(histWrites') > Len(histWrites) =>
          LET record == history'[state.round]
              n == Cardinality(Positions(record, IsQueueMsg))
          IN  /\ \A i \in 1..n : IsQueueMsg(record[i])
              /\ \A i \in 1..(n - 1) : record[i].id < record[i + 1].id
              /\ {record[i].id : i \in 1..n} = DrainedBy(iter)
              /\ Len(record) > n
              /\ IsAssistant(record[n + 1])
              /\ record[n + 1].tag = iter
              /\ Len(record) = n + 1 + Len(record[n + 1].calls)
              /\ \A k \in 1..Len(record[n + 1].calls) :
                    /\ IsTool(record[n + 1 + k])
                    /\ record[n + 1 + k].callId = record[n + 1].calls[k].id
    ]_vars

\* a record with a drained message and tool results was written on top of a
\* context that already held earlier messages
C11_Witness ==
    /\ histWrites # <<>>
    /\ pc \in {"top", "blocked"}
    /\ LET record == history[histWrites[Len(histWrites)]]
       IN  /\ Positions(record, IsQueueMsg) # {}
           /\ Positions(record, IsTool) # {}
           /\ Len(record) < Len(diskContext)

\* C12: a script load that fails at the start of an iteration puts the executor
\* in error state with source script_load and leaves the queue, the context
\* and the drain log alone; the queue is emptied only by an iteration whose
\* scripts loaded, and that iteration takes every queued message, in order,
\* into its round.
C12_LoadFailureKeepsQueue ==
    [][/\ (pc = "loading" /\ pc' = "repair") =>
             /\ status' = "error"
             /\ error' = "script_load"
             /\ queue' = queue
             /\ drainedLog' = drainedLog
             /\ currentContext' = currentContext
             /\ diskContext' = diskContext
       /\ (\E i \in 1..Len(queue) : i > Len(queue') \/ queue'[i] # queue[i]) =>
             /\ pc = "loading"
             /\ scriptsOk
             /\ pc' \in {"compacting", "llm"}
             /\ queue' = <<>>
             /\ QueueIds(roundMessages') = QueueIds(queue)
    ]_vars

\* the executor waits for a script repair while a message is queued
C12_Witness ==
    /\ pc = "repair"
    /\ status = "error"
    /\ error = "script_load"
    /\ queue # <<>>
    /\ iter > 0

C14_TimeoutIsFatal ==
    [][(pc = "repair" /\ polls >= MaxPolls /\ <<pc, polls, error>>' # <<pc, polls, error>>) =>
          /\ pc' = "exited"
          /\ exitCode' = 1
    ]_vars

\* C15: a repair signal written while no error was active is consumed by the
\* next poll and changes nothing: the poll that consumes it leaves status and
\* error as the same poll without a signal file would, that is, it resumes
\* only if the script probe loads.
C15_StaleSignalChangesNothing ==
    [][(pc = "repair" /\ polls < MaxPolls /\ signalFile /\ signalStale
          /\ <<pc, polls, error>>' # <<pc, polls, error>>) =>
          /\ ~signalFile'
          /\ IF scriptsOk
             THEN status' = "running" /\ error' = "none"
             ELSE status' = status /\ error' = error
    ]_vars

\* the calls of the running turn that settled with an error of a user tool
\* (execute threw or timed out) or of an unknown tool name
FailedToolCalls ==
    {i \in 1..Len(calls) : /\ calls[i].name \notin {"think", "reply", "wait_for"}
                           /\ results[i] # Running
                           /\ results[i].txt = "error"}

\* C16: a tool error never escalates to error state: a turn in which a user
\* tool threw or timed out, or a call named no loaded tool, ends with the round
\* completed: its record holds an ERROR result for that call and a result for
\* every other call, and context, history and round counter are written.
C16_ToolErrorIsolated ==
    [][(pc = "tools" /\ FailedToolCalls # {} /\ pc' # "tools") =>
          /\ pc' # "repair"
          /\ status' # "error"
          /\ Len(histWrites') = Len(histWrites) + 1
          /\ agentJson'.round = state.round + 1
          /\ LET record == history'[state.round]
                 toolMsgs == SubSeq(record, Len(record) - Len(calls) + 1, Len(record))
             IN  /\ Len(record) > Len(calls)
                 /\ \A i \in 1..Len(calls) : toolMsgs[i].callId = calls[i].id
                 /\ \A i \in FailedToolCalls : toolMsgs[i].txt = "error"
                 /\ SubSeq(diskContext', Len(diskContext') - Len(calls) + 1, Len(diskContext'))
                       = toolMsgs
    ]_vars

\* C17: when a result collected for a turn asks to wait, the round ends in wait
\* state: status is 'waiting' and the executor blocks on the queue only with
\* the context including every tool result, the round record and the bumped
\* round counter already written; it is blocked exactly while the queue is
\* empty and goes on to the next round only with a message present.
C17_WaitAfterPersistence ==
    [][/\ (pc = "tools" /\ pc' \notin {"tools", "repair"}
           /\ \E i \in 1..Len(calls) : results[i] # Running /\ results[i].wait) =>
             /\ status' = "waiting"
             /\ pc' = IF queue = <<>> THEN "blocked" ELSE "top"
             /\ Len(histWrites') = Len(histWrites) + 1
             /\ agentJson'.round = state.round + 1
             /\ LET record == history'[state.round]
                    n == Len(calls)
                IN  /\ Len(record) > n
                    /\ \A i \in 1..n : /\ IsTool(record[Len(record) - n + i])
                                        /\ record[Len(record) - n + i].callId = calls[i].id
                    /\ SubSeq(diskContext', Len(diskContext') - n + 1, Len(diskContext'))
                          = SubSeq(record, Len(record) - n + 1, Len(record))
       /\ (pc = "blocked" /\ pc' # "blocked") => (queue = <<>> /\ queue' # <<>> /\ pc' = "top")
       /\ (pc = "top" /\ status = "waiting" /\ pc' # "top") => queue # <<>>
    ]_vars

\* the executor is blocked after a turn whose first call asked to wait and
\* whose last call did not
C17_Witness ==
    /\ pc = "blocked"
    /\ status = "waiting"
    /\ histWrites # <<>>
    /\ LET record == history[histWrites[Len(histWrites)]]
       IN  /\ Len(record) >= 3
           /\ IsTool(record[Len(record)])
           /\ record[Len(record)].txt = "result"
           /\ IsTool(record[Len(record) - 1])
           /\ diskContext[Len(diskContext)] = record[Len(record)]
           /\ agentJson.round > histWrites[Len(histWrites)]

\* C18: an iteration that starts with maxRounds set and round >= maxRounds
\* ends the loop: that iteration and everything after it drain nothing, call
\* neither provider nor tools, and write neither context, history nor
\* agent.json; hence round never exceeds maxRounds.
C18_MaxRoundsStopsLoop ==
    /\ [](agentJson.maxRounds # 0 => agentJson.round <= agentJson.maxRounds)
    /\ [][(pc = "top" /\ reachedMaxRounds(agentJson) /\ pc' # pc) =>
             /\ pc' = "stopped"
             /\ UNCHANGED <<queue, drainedLog, diskVars, turns, iter>>]_vars
    /\ [][pc = "stopped" =>
             /\ pc' = "stopped"
             /\ UNCHANGED <<drainedLog, diskVars, turns, iter, currentContext, calls>>
             /\ queue' # queue => \E m \in Range(queue') : queue' = Append(queue, m)]_vars

\* the loop has stopped at maxRounds after writing a round, with a message
\* left in the queue
C18_Witness ==
    /\ pc = "stopped"
    /\ agentJson.maxRounds # 0
    /\ agentJson.round = agentJson.maxRounds
    /\ histWrites # <<>>
    /\ queue # <<>>

\* C19: once the loop has ended at maxRounds the process has exited with code
\* 0 (it is not left running); once a fatal error ended the loop it has exited
\* with code 1; the process is alive exactly while the loop runs.
C19_ExitCodes ==
    /\ pc = "stopped" => exitCode = 0
    /\ pc = "exited" => exitCode = 1
    /\ pc \notin {"stopped", "exited"} => exitCode = -1

\* the place of the first colon of a source, 0 when it has none
FirstColon(source) ==
    IF \E i \in 1..Len(source) : source[i] = ":"
    THEN CHOOSE i \in 1..Len(source) : source[i] = ":" /\ \A j \in 1..(i - 1) : source[j] # ":"
    ELSE 0

\* the routing key as the part of the source up to its first colon
KeyUpToFirstColon(source) ==
    IF FirstColon(source) = 0 THEN source ELSE SubSeq(source, 1, FirstColon(source) - 1)

\* the same, but a source that begins with a colon is its own key
KeyUnlessLeadingColon(source) ==
    IF FirstColon(source) <= 1 THEN source ELSE SubSeq(source, 1, FirstColon(source) - 1)

\* a reply call routed by Key: with a url under the key in routes.json, one POST
\* of {source, content} to it and no outbox file; otherwise no POST and one new
\* outbox file with a fresh id; the tool result names the destination
RoutedBy(Key(_)) ==
    Len(replyResults') > Len(replyResults) =>
        LET call == replyResults'[Len(replyResults')]
            table == IF routesJson.parses THEN routesJson.table ELSE EmptyTable
            key == Key(call.source)
        IN  IF key \in DOMAIN table /\ table[key].url # ""
            THEN /\ requests' = Append(requests, [url |-> table[key].url,
                                                   source |-> call.source,
                                                   content |-> call.content])
                 /\ outbox' = outbox
                 /\ call.result.kind \in {"delivered", "error"}
                 /\ call.result.url = table[key].url
            ELSE /\ requests' = requests
                 /\ Len(outbox') = Len(outbox) + 1
                 /\ SubSeq(outbox', 1, Len(outbox)) = outbox
                 /\ outbox'[Len(outbox')].source = call.source
                 /\ outbox'[Len(outbox')].content = call.content
                 /\ \A i \in 1..Len(outbox) : outbox[i].id # outbox'[Len(outbox')].id
                 /\ call.result.kind = "outbox"

ListedIds(files) == {readOutbox(files)[i].id : i \in 1..Len(readOutbox(files))}

\* C21: DELETE /outbox/:id answers 200 when the file exists and then the file is
\* gone and GET /outbox no longer lists it, every other file staying; it answers
\* 404 and changes nothing when there is no such file, so a second DELETE of
\* the same id, or a DELETE of an id that never existed, answers 404.
C21_DeleteOutboxOnce ==
    /\ [][Len(deleteLog') > Len(deleteLog) =>
             LET req == deleteLog'[Len(deleteLog')]
             IN  IF req.id \in ListedIds(outbox)
                 THEN /\ req.status = 200
                      /\ ListedIds(outbox') = ListedIds(outbox) \ {req.id}
                      /\ Len(outbox') = Len(outbox) - 1
                 ELSE /\ req.status = 404
                      /\ outbox' = outbox]_vars
    /\ [](\A i, j \in 1..Len(deleteLog) :
             (i < j /\ deleteLog[i].id = deleteLog[j].id /\ deleteLog[i].status = 200)
                => deleteLog[j].status = 404)
    /\ [](\A i \in 1..Len(deleteLog) : deleteLog[i].id = 0 => deleteLog[i].status = 404)

\* the same outbox entry was deleted twice while another entry stayed listed
C21_Witness ==
    /\ Len(deleteLog) = 2
    /\ deleteLog[1].id = deleteLog[2].id
    /\ deleteLog[1].status = 200
    /\ deleteLog[2].status = 404
    /\ Len(outbox) = 1

\* the bash calls made so far
Called == {c \in 1..MaxCommands : bash[c] # Idle}

\* C22: every bash call returns exactly one result whatever the order of the
\* kill timer, the threshold timer and the close event: the inline output when
\* the child closed before the threshold timer fired (no job, no notification),
\* otherwise, and always with async: true, the async result, followed by one
\* exit notification when the child closes; never both, and none only while
\* the child runs and the threshold timer is pending.
C22_ExactlyOneResult ==
    \A c \in Called :
        LET job == bash[c]
        IN  /\ Len(job.results) <= 1
            /\ (job.child = "closed" \/ job.asyncTimer = "fired") => Len(job.results) = 1
            /\ job.results = <<"inline">> =>
                  /\ job.child = "closed"
                  /\ job.asyncTimer = "cleared"
                  /\ ~job.forceAsync
                  /\ c \notin jobs
                  /\ job.posts = 0
            /\ job.results = <<"async">> =>
                  /\ job.asyncTimer = "fired"
                  /\ job.child = "running" => (c \in jobs /\ job.posts = 0)
                  /\ job.child = "closed" => (c \notin jobs /\ job.posts = 1)

\* one call returned inline after its kill timer fired, another went to the
\* background and has sent its exit notification
C22_Witness ==
    /\ bash[1].results = <<"inline">>
    /\ bash[1].killTimer = "fired"
    /\ bash[2].results = <<"async">>
    /\ bash[2].child = "closed"
    /\ bash[2].posts = 1

C24_ExitNotifiesAgent ==
    /\ [][\A c \in Called :
            (bash[c].child = "running" /\ bash[c].resolved /\ bash'[c].child = "closed")
                => /\ bash'[c].exitLine
                   /\ bash'[c].file = "kept"
                   /\ c \notin jobs'
                   /\ c \in inFlightPosts'
                   /\ bash'[c].posts = 1]_vars
    /\ [](\A c \in Called :
            (c \in inFlightPosts \/ bash[c].msgId # 0) => (bash[c].exitLine /\ c \notin jobs))
    /\ [][\A c \in Called :
            (bash[c].msgId = 0 /\ bash'[c].msgId # 0)
                => /\ c \in inFlightPosts
                   /\ Len(queue') = Len(queue) + 1
                   /\ queue'[Len(queue')].id = bash'[c].msgId
                   /\ queue'[Len(queue')].srcLen = BashSourceChars
                   /\ (pc = "blocked" => (pc' = "top" /\ ~waiter'))]_vars
    /\ [](\A c \in Called :
            bash[c].msgId # 0
                => \/ \E i \in 1..Len(queue) : queue[i].id = bash[c].msgId
                   \/ \E i \in 1..Len(currentContext) :
                         /\ currentContext[i].role = "user"
                         /\ currentContext[i].id = bash[c].msgId
                         /\ currentContext[i].len = BashSourceChars + 3 + BashNoticeLen)

\* the notification of a closed background job is the only message the
\* executor ever got, and the round it started has drained it into the context
C24_Witness ==
    /\ \E c \in Called :
          /\ bash[c].exitLine
          /\ bash[c].msgId # 0
          /\ \E i \in 1..Len(currentContext) :
                currentContext[i].role = "user" /\ currentContext[i].id = bash[c].msgId
          /\ drainedLog = <<bash[c].msgId>>
    /\ pc = "llm"

\* C25: bash_kill on a registered job signals its child, arms the force kill
\* and answers with the confirmation, and the job leaves the registry when its
\* child closes; bash_kill on any other id signals nothing, leaves the registry
\* as it is and answers 'No running job'.  A job that went to the background is
\* never ended by the timeout timer of the call: only bash_kill or its own
\* exit ends it.
C25_OnlyKillOrExitEndsAsyncJob ==
    /\ [][Len(killLog') = Len(killLog) + 1 =>
            LET e == killLog'[Len(killLog')]
            IN  /\ jobs' = jobs
                /\ IF e.id \in jobs
                   THEN /\ e.answer = "killed"
                        /\ "bash_kill" \in bash'[e.id].signals
                        /\ e.id \in forceTimers'
                   ELSE /\ e.answer = "no running job"
                        /\ bash' = bash
                        /\ forceTimers' = forceTimers]_vars
    /\ [](\A c \in Called :
            (bash[c].results = <<"async">> /\ bash[c].child = "closed")
                => (c \notin jobs /\ bash[c].endedBy \in {"self", "bash_kill"}))

\* the lines of an output: its newline-terminated lines and the text after
\* the last newline, if any
Lines(output) == output.newlines + (IF output.tail THEN 1 ELSE 0)

\* C26: an inline result whose output has exactly 100 lines is the whole
\* output and no file is left behind; one of 101 lines is truncated and the
\* output saved to a file; no output of at most 100 lines is truncated and
\* every output of more is, newline-terminated or not.
C26_InlineBoundary ==
    inline.kind # "none" =>
        /\ Lines(inline.output) = 100 =>
              (inline.kind = "full" /\ ~inline.saved /\ inline.stream = "removed")
        /\ Lines(inline.output) = 101 => (inline.kind = "truncated" /\ inline.saved)
        /\ Lines(inline.output) >= 1 =>
              (inline.kind = "truncated" <=> Lines(inline.output) > 100)

\* the tool results before the third-last assistant message
OldToolResults(messages) ==
    {i \in 1..Len(messages) :
        /\ messages[i].role = "tool"
        /\ Cardinality({j \in (i + 1)..Len(messages) : messages[j].role = "assistant"})
              >= KEEP_LAST_ASSISTANTS}

\* C27: the thresholds of a round's context management are exact.  Below
\* 80 000 estimated characters nothing is pruned; from 80 000 and below
\* 120 000 the old tool results (longer than 4 000) are soft-trimmed and none
\* is cleared; from 120 000 the old tool results (longer than 100) are
\* replaced by the placeholder; compaction runs exactly when the context
\* after pruning has 160 000 characters or more.
C27_ThresholdsExact ==
    [][(pc = "loading" /\ pc' # "loading") =>
        LET context == diskContext \o [i \in 1..Len(queue) |-> ToUserMsg(queue[i], iter + 1)]
            size == estimateContextChars(context)
            old == OldToolResults(context)
        IN  /\ Len(currentContext') = Len(context)
            /\ \A i \in (1..Len(context)) \ old : currentContext'[i] = context[i]
            /\ size < 80000 => currentContext' = context
            /\ (size >= 80000 /\ size < 120000) =>
                  \A i \in old :
                     IF context[i].len > 4000
                     THEN /\ currentContext'[i].txt = "trimmed"
                          /\ currentContext'[i].len = 1500 + 58 + Digits(context[i].len) + 1500
                     ELSE currentContext'[i] = context[i]
            /\ size >= 120000 =>
                  \A i \in old :
                     IF context[i].len > 100
                     THEN /\ currentContext'[i].txt = "cleared"
                          /\ currentContext'[i].len = CLEARED_PLACEHOLDER_LEN
                     ELSE currentContext'[i] = context[i]
            /\ (pc' = "compacting") <=> (estimateContextChars(currentContext') >= 160000)
            /\ (pc' # "compacting") => pc' = "llm"]_vars

\* a round whose context has exactly 160 000 characters after its old tool
\* result was cleared is about to compact
C27_Witness ==
    /\ pc = "compacting"
    /\ estimateContextChars(currentContext) = 160000
    /\ \E i \in 1..Len(currentContext) : currentContext[i].txt = "cleared"

\* the workspace holds what a root left: a context message with the boot
\* notice, role root, or a round above 0 with at most one context message
HasRootArtefacts(w) ==
    \/ \E i \in 1..Len(w.context) : w.context[i] = "boot"
    \/ w.role = "root"
    \/ w.round > 0 /\ Len(w.context) <= 1

\* C28: a process started as a worker on a workspace with inherited root
\* artefacts has reset it by the time the server and the loop start: context
\* [], role worker, round 0, no history round files (and the worker prompt and
\* skills); on a workspace without them startup leaves context, round and
\* history as they were.
C28_WorkerResetsInheritedState ==
    (bootPc \in {"ready", "serving"} /\ ~spawnWorker /\ ws0.exists) =>
        IF HasRootArtefacts(ws0)
        THEN /\ ws.contextFile /\ ws.context = <<>>
             /\ ws.role = "worker"
             /\ ws.round = 0
             /\ ws.history = {}
             /\ ws.prompt = "worker" /\ ws.skills = "worker"
        ELSE /\ ws.contextFile = ws0.contextFile /\ ws.context = ws0.context
             /\ ws.round = ws0.round
             /\ ws.history = ws0.history
             /\ ws.role = ws0.role

\* a worker has started serving on a workspace cloned from a root that had
\* completed rounds: role worker already, one context message, round 2
C28_Witness ==
    /\ bootPc = "serving"
    /\ ~spawnWorker
    /\ ws0.role = "worker" /\ ws0.round = 2 /\ ws0.context = <<"plain">> /\ ws0.history = {0, 1}
    /\ ws.round = 0 /\ ws.history = {} /\ ws.context = <<>>

\* C29: in a round the provider is called at most 3 times, after a wait of
\* 2 s following the first failure and 4 s following the second; the first
\* response that arrives is used and no further call is made; the error state
\* with source llm_call is entered exactly when the third call fails, and
\* then agent.json keeps its round and no history record is written.
C29_ThreeAttemptsThenError ==
    /\ [](pc \in {"llm", "backoff"} =>
            /\ attempt \in 0..2
            /\ delays = SubSeq(<<2000, 4000>>, 1, attempt))
    /\ [][(pc = "llm" /\ turns' = turns + 1) =>
            pc' \notin {"llm", "backoff"}]_vars
    /\ [][(pc = "llm" /\ turns' = turns /\ pc' # "llm") =>
            IF attempt = 2
            THEN /\ pc' = "repair"
                 /\ status' = "error"
                 /\ error' = "llm_call"
                 /\ agentJson' = agentJson
                 /\ history' = history
                 /\ histWrites' = histWrites
            ELSE /\ pc' = "backoff"
                 /\ status' = status
                 /\ error' = error]_vars
    /\ [][(error' = "llm_call" /\ error # "llm_call") =>
            (pc = "llm" /\ attempt = 2 /\ turns' = turns)]_vars

\* the second backoff of a round has been waited and the third call is out
C29_Witness ==
    /\ pc = "llm"
    /\ attempt = 2
    /\ delays = <<2000, 4000>>
    /\ llmErrors < MaxLLMErrors

\* C30: when an accepted assistant turn has no tool calls and is the first or
\* second such turn in a row, the nudge message is appended to the context,
\* and the messages of the next provider call include it.
C30_NudgeReachesProvider ==
    /\ [][(pc = "llm" /\ turns' = turns + 1 /\ calls' = <<>> /\ pc' # "tools"
             /\ noToolRetries < 2) =>
            /\ noToolRetries' = noToolRetries + 1
            /\ currentContext'[Len(currentContext')].txt = "nudge"]_vars
    /\ [][(pc = "loading" /\ pc' = "llm" /\ noToolRetries \in {1, 2}) =>
            \E i \in 1..Len(currentContext') : currentContext'[i].txt = "nudge"]_vars

\* C31: the third assistant turn in a row without tool calls puts the executor
\* into its wait (status waiting, blocked on the queue while it is empty)
\* instead of a further provider call; a turn with tool calls resets the count
\* of empty turns.
C31_ThirdEmptyTurnWaits ==
    /\ [][(pc = "llm" /\ turns' = turns + 1 /\ pc' # "tools" /\ noToolRetries = 2) =>
            /\ status' = "waiting"
            /\ queue = <<>> => pc' = "blocked"]_vars
    /\ [][(pc = "tools" /\ pc' # "tools") => noToolRetries' = 0]_vars

\* a summary message made of partial summaries the provider returned
IsProviderSummary(m) ==
    /\ IsSummary(m)
    /\ \E n \in 1..8 : m.len = SUMMARY_PREFIX_LEN + SummaryLen(n, SummaryPartLen)

\* C32: compaction is best-effort.  A compaction step either installs a
\* summary the provider wrote or, when it failed (the summarisation call was
\* rejected, or compressContext itself), leaves the pruned context as it is,
\* on disk too; in both cases the round goes on to its provider call.
C32_FailedCompactionKeepsContext ==
    [][(pc = "compacting" /\ pc' # "compacting") =>
        /\ pc' = "llm"
        /\ \/ currentContext' = currentContext /\ diskContext' = diskContext
           \/ IsProviderSummary(currentContext'[1])]_vars

\* the context is its first message followed by the messages of before from
\* position k on
KeepsSuffixFrom(after, before, k) ==
    after = <<after[1]>> \o SubSeq(before, k, Len(before))

\* C33: the split index of a compaction is the index of a user message: no
\* assistant message before the split has a tool result at or after it, and
\* the new context is one summary message followed by the old context from
\* the split on.
C33_SplitAtUserMessage ==
    [][(pc = "compacting" /\ currentContext' # currentContext) =>
        /\ IsSummary(currentContext'[1])
        /\ LET k == findCompactionSplit(currentContext) + 1 IN
              /\ currentContext[k].role = "user"
              /\ KeepsSuffixFrom(currentContext', currentContext, k)
              /\ \A i \in 1..(k - 1), j \in k..Len(currentContext) :
                    (IsAssistant(currentContext[i]) /\ IsTool(currentContext[j]))
                        => currentContext[j].callId \notin CallIds(currentContext[i])]_vars

NonTool(m) == m.role # "tool"

\* C34: in what repairToolPairing returns, for every message sequence, each
\* tool message answers a tool call of an earlier assistant message, no
\* toolCallId is on two tool messages, every tool call of an assistant message
\* has a tool message after it, and the messages that are not tool messages
\* are those of the input, in their order.
C34_RepairedPairing ==
    returned.fn = "repairToolPairing" =>
        LET out == returned.out IN
        /\ \A j \in Positions(out, IsTool) :
              \E i \in 1..(j - 1) : IsAssistant(out[i]) /\ out[j].callId \in CallIds(out[i])
        /\ \A j, k \in Positions(out, IsTool) : out[j].callId = out[k].callId => j = k
        /\ \A i \in Positions(out, IsAssistant) : \A id \in CallIds(out[i]) :
              \E j \in (i + 1)..Len(out) : IsTool(out[j]) /\ out[j].callId = id
        /\ SelectSeq(out, NonTool) = SelectSeq(argMessages, NonTool)

\* the position of the third-from-last assistant message, 0 if there is none
ThirdLastAssistant(messages) ==
    LET at == {i \in Positions(messages, IsAssistant) :
                  Cardinality({j \in Positions(messages, IsAssistant) : j >= i}) = 3}
    IN  IF at = {} THEN 0 ELSE CHOOSE i \in at : TRUE

\* C35: pruneContext changes only the content of tool messages before the
\* third-from-last assistant message.  The result has as many messages, each
\* with the role, tool calls and toolCallId it had; the messages that are not
\* tool messages and those from the cut-off on are returned as they were; with
\* fewer than three assistant messages the result is the argument.
C35_PruneFrame ==
    returned.fn = "pruneContext" =>
        LET out == returned.out
            cut == ThirdLastAssistant(argMessages)
        IN  /\ Len(out) = Len(argMessages)
            /\ \A i \in 1..Len(argMessages) :
                  /\ [out[i] EXCEPT !.len = argMessages[i].len, !.txt = argMessages[i].txt]
                        = argMessages[i]
                  /\ (~IsTool(argMessages[i]) \/ i >= cut) => out[i] = argMessages[i]
            /\ cut = 0 => out = argMessages

\* pruneContext rewrote an old tool result and returned an equally long tool
\* result after the cut-off as it was
C35_Witness ==
    /\ returned.fn = "pruneContext"
    /\ \E i, j \in Positions(argMessages, IsTool) :
          /\ i < ThirdLastAssistant(argMessages) /\ ThirdLastAssistant(argMessages) < j
          /\ argMessages[i].len = argMessages[j].len
          /\ returned.out[i] # argMessages[i]
          /\ returned.out[j] = argMessages[j]
\* C36: every failure to load a provider or tool module is a script_load
\* error, a module without its export included.  While a script does not load
\* or lacks its export, a step that puts the executor into error state records
\* the source script_load, and no repair wait ends because the script probe
\* passed.
C36_LoadFailuresAreScriptLoad ==
    [][/\ ((~scriptsOk \/ exports # "all") /\ status # "error" /\ status' = "error")
            => error' = "script_load"
       /\ ((~scriptsOk \/ exports # "all") /\ pc = "repair" /\ pc' # "repair")
            => resumedBy' # "probe"]_vars

\* the reply calls of the running turn that have not settled
PendingReplies == {i \in 1..Len(calls) : calls[i].name = "reply" /\ results[i] = Running}

\* C37: every reply call ends with a tool result for that call: delivered to
\* the route, written to the outbox, or the delivery error.  While a reply call
\* of the turn is pending no step puts the executor into error state, and a
\* reply call that settles leaves one of these results.
C37_ReplyEndsInToolResult ==
    [][(pc = "tools" /\ PendingReplies # {}) =>
          /\ status' # "error"
          /\ \A i \in PendingReplies :
                Len(results') = Len(calls) =>
                    (results'[i] = Running \/ results'[i].txt \in {"result", "error"})]_vars

\* C38: while the process runs, GET /status shows an error record exactly when
\* the status is 'error'.  The status leaves 'error' only for 'running', in the
\* poll that unlinked the repair signal or whose script probe passed; the
\* process exits in error state only when the repair wait has run out.
C38_ErrorRecordIffErrorStatus ==
    /\ [](exitCode = -1 => (error # "none" <=> status = "error"))
    /\ [][/\ (status = "error" /\ status' # "error") =>
                /\ status' = "running"
                /\ error' = "none"
                /\ pc = "repair"
                /\ \/ signalFile /\ ~signalFile' /\ resumedBy' = "signal"
                   \/ ~signalFile /\ scriptsOk /\ resumedBy' = "probe"
          /\ (status = "error" /\ exitCode = -1 /\ exitCode' # -1) =>
                /\ pc = "repair"
                /\ polls >= MaxPolls
                /\ exitCode' = 1]_vars

\* the loop is back at its top, running and without an error record, after a
\* script probe ended an llm_call error state
C38_Witness ==
    /\ pc = "top"
    /\ resumedBy = "probe"
    /\ llmErrors = 1
    /\ status = "running"
    /\ error = "none"
    /\ exitCode = -1

\* q is the beginning of r
IsPrefix(q, r) == Len(q) <= Len(r) /\ SubSeq(r, 1, Len(q)) = q

C40_DescriptorClosedOnce ==
    /\ exitCode = -1
    /\ \A c \in Called :
          /\ ~bash[c].threw
          /\ bash[c].child = "closed" => bash[c].fd = "closed"

====
